---- MODULE Spec2Model ----
(***************************************************************************)
(* Order intake, pricing validation and payment / subscription             *)
(* orchestration of the Instant Closet Tote Storage site.                  *)
(*                                                                         *)
(*   - create-payment-intent serverless function (rate limiter, order and  *)
(*     amount validation, status mapping of the catch block);              *)
(*   - create-subscription serverless function (gateway call sequence);    *)
(*   - the browser payment flow (handlePaymentSubmission,                  *)
(*     createSubscriptionAfterPayment, handlePaymentSuccess and the modal).*)
(*                                                                         *)
(* JavaScript strings that the code inspects character by character are    *)
(* sequences of one-character strings; error messages, which the code      *)
(* only searches for phrases, are sequences of words.  Money is kept in    *)
(* integers: amounts in cents, dollar values that go through parseFloat in *)
(* thousandths of a dollar.                                                *)
(***************************************************************************)
EXTENDS Integers, Sequences, FiniteSets, TLC

\* ------------------------------------------------------------------------
\* JavaScript values as they arrive in a JSON body
\* ------------------------------------------------------------------------

\* a JSON number; n is in the unit of the field that carries it
Num(n) == [t |-> "num", n |-> n, s |-> <<>>]

\* a JSON string, as a sequence of characters
Str(s) == [t |-> "str", n |-> 0, s |-> s]

\* null, undefined, or a key that is missing from the body
Null == [t |-> "null", n |-> 0, s |-> <<>>]

\* !v of JavaScript, for the three kinds of value above
falsy(v) ==
    \/ v.t = "null"
    \/ v.t = "num" /\ v.n = 0
    \/ v.t = "str" /\ v.s = <<>>

Digits == {"0", "1", "2", "3", "4", "5", "6", "7", "8", "9"}

LowerCase == {"a", "b", "c", "d", "e", "f", "g", "h", "i", "j", "k", "l", "m",
              "n", "o", "p", "q", "r", "s", "t", "u", "v", "w", "x", "y", "z"}

UpperCase == {"A", "B", "C", "D", "E", "F", "G", "H", "I", "J", "K", "L", "M",
              "N", "O", "P", "Q", "R", "S", "T", "U", "V", "W", "X", "Y", "Z"}

\* \s of a JavaScript regular expression (the members the inputs use)
WhiteSpace == {" ", "\t", "\n"}

DigitValue(c) ==
    CASE c = "0" -> 0 [] c = "1" -> 1 [] c = "2" -> 2 [] c = "3" -> 3
      [] c = "4" -> 4 [] c = "5" -> 5 [] c = "6" -> 6 [] c = "7" -> 7
      [] c = "8" -> 8 [] c = "9" -> 9

\* String.prototype.trim
RECURSIVE trimLeft(_)
trimLeft(s) ==
    IF s # <<>> /\ Head(s) \in WhiteSpace THEN trimLeft(Tail(s)) ELSE s

RECURSIVE trimRight(_)
trimRight(s) ==
    IF s # <<>> /\ s[Len(s)] \in WhiteSpace
    THEN trimRight(SubSeq(s, 1, Len(s) - 1)) ELSE s

trim(s) == trimRight(trimLeft(s))

\* the length of the longest prefix of s made of digits
RECURSIVE digitPrefixLen(_)
digitPrefixLen(s) ==
    IF s # <<>> /\ Head(s) \in Digits THEN 1 + digitPrefixLen(Tail(s)) ELSE 0

\* the value of a sequence of digits, most significant first
RECURSIVE digitsValue(_)
digitsValue(s) ==
    IF s = <<>> THEN 0
    ELSE 10 * digitsValue(SubSeq(s, 1, Len(s) - 1)) + DigitValue(s[Len(s)])

NaN == [nan |-> TRUE, v |-> 0]

Number(v) == [nan |-> FALSE, v |-> v]

\* parseInt(v): leading white space is skipped, an optional sign and the
\* longest run of digits are read, anything after it is ignored; NaN when
\* there is no digit.  A number is first converted to its decimal string, so
\* an integer comes back unchanged.
parseInt(v) ==
    IF v.t = "num" THEN Number(v.n)
    ELSE IF v.t = "null" THEN NaN
    ELSE LET s == trimLeft(v.s)
             neg == s # <<>> /\ Head(s) = "-"
             u == IF s # <<>> /\ Head(s) \in {"-", "+"} THEN Tail(s) ELSE s
             k == digitPrefixLen(u)
         IN IF k = 0 THEN NaN
            ELSE Number((IF neg THEN -1 ELSE 1) * digitsValue(SubSeq(u, 1, k)))

\* parseFloat(v), in thousandths: an optional sign, digits, and an optional
\* fraction of which three places are kept; NaN when there is no digit.  A
\* number n is already in thousandths.
parseFloat(v) ==
    IF v.t = "num" THEN Number(v.n)
    ELSE IF v.t = "null" THEN NaN
    ELSE LET s == trimLeft(v.s)
             neg == s # <<>> /\ Head(s) = "-"
             u == IF s # <<>> /\ Head(s) \in {"-", "+"} THEN Tail(s) ELSE s
             k == digitPrefixLen(u)
             rest == SubSeq(u, k + 1, Len(u))
             f == IF rest # <<>> /\ Head(rest) = "."
                  THEN SubSeq(Tail(rest), 1, digitPrefixLen(Tail(rest)))
                  ELSE <<>>
             f3 == SubSeq(f \o <<"0", "0", "0">>, 1, 3)
         IN IF k = 0 /\ f = <<>> THEN NaN
            ELSE Number((IF neg THEN -1 ELSE 1)
                        * (1000 * digitsValue(SubSeq(u, 1, k)) + digitsValue(f3)))

Abs(x) == IF x < 0 THEN -x ELSE x

\* ------------------------------------------------------------------------
\* Error messages: sequences of words; includes() looks for a phrase
\* ------------------------------------------------------------------------

includes(message, phrase) ==
    \E i \in 1..(Len(message) - Len(phrase) + 1) :
        SubSeq(message, i, i + Len(phrase) - 1) = phrase

NoError == <<>>

TooManyRequests ==
    <<"Too", "many", "requests", ".", "Please", "wait", "a", "minute",
      "before", "trying", "again", ".">>

InvalidRequestFormat == <<"Invalid", "request", "format">>

MissingAmountOrOrder == <<"Missing", "amount", "or", "order", "data">>

OrderDataRequired == <<"Order", "data", "is", "required">>

EmailRequired == <<"Valid", "email", "address", "is", "required">>

PhoneRequired == <<"Valid", "phone", "number", "is", "required">>

NameRequired ==
    <<"Customer", "name", "is", "required", "(", "minimum", "2",
      "characters", ")">>

AddressRequired ==
    <<"Complete", "address", "is", "required", "(", "minimum", "10",
      "characters", ")">>

ToteQuantityRange ==
    <<"Tote", "quantity", "must", "be", "between", "2", "and", "10">>

InvalidOrderAmount == <<"Invalid", "order", "amount", "calculated">>

InvalidPaymentAmount == <<"Invalid", "payment", "amount">>

AmountOutOfBounds ==
    <<"Payment", "amount", "must", "be", "between", "40", "and", "120">>

AmountMismatch ==
    <<"Payment", "amount", "does", "not", "match", "order", "total">>

MethodNotAllowed == <<"Method", "not", "allowed">>

\* calling .trim() on a value that is not a string
TrimNotAFunction == <<"trim", "is", "not", "a", "function">>

\* messages of errors thrown by the gateway SDK
GatewayErrors ==
    { <<"An", "error", "occurred", "with", "our", "connection", "to", "Stripe">>,
      <<"Invalid", "API", "Key", "provided">> }

\* ------------------------------------------------------------------------
\* create-payment-intent: validation
\* ------------------------------------------------------------------------

\* [a-zA-Z0-9._%+-]
EmailLocalClass == LowerCase \cup UpperCase \cup Digits \cup {".", "_", "%", "+", "-"}

\* [a-zA-Z0-9.-]
EmailDomainClass == LowerCase \cup UpperCase \cup Digits \cup {".", "-"}

allIn(s, class) == \A i \in 1..Len(s) : s[i] \in class

\* /^[a-zA-Z0-9._%+-]+@[a-zA-Z0-9.-]+\.[a-zA-Z]{2,}$/.test(s)
emailRegex(s) ==
    \E at \in 1..Len(s) :
        /\ s[at] = "@"
        /\ at > 1
        /\ allIn(SubSeq(s, 1, at - 1), EmailLocalClass)
        /\ \E dot \in (at + 2)..Len(s) :
              /\ s[dot] = "."
              /\ allIn(SubSeq(s, at + 1, dot - 1), EmailDomainClass)
              /\ Len(s) - dot >= 2
              /\ allIn(SubSeq(s, dot + 1, Len(s)), LowerCase \cup UpperCase)

\* [\d\s\-\(\)\+\.]
PhoneClass == Digits \cup WhiteSpace \cup {"-", "(", ")", "+", "."}

\* /^[\d\s\-\(\)\+\.]+$/.test(s)
phoneRegex(s) == s # <<>> /\ allIn(s, PhoneClass)

\* String.prototype.toLowerCase
lowerOf(c) ==
    CASE c = "A" -> "a" [] c = "B" -> "b" [] c = "C" -> "c" [] c = "D" -> "d"
      [] c = "E" -> "e" [] c = "F" -> "f" [] c = "G" -> "g" [] c = "H" -> "h"
      [] c = "I" -> "i" [] c = "J" -> "j" [] c = "K" -> "k" [] c = "L" -> "l"
      [] c = "M" -> "m" [] c = "N" -> "n" [] c = "O" -> "o" [] c = "P" -> "p"
      [] c = "Q" -> "q" [] c = "R" -> "r" [] c = "S" -> "s" [] c = "T" -> "t"
      [] c = "U" -> "u" [] c = "V" -> "v" [] c = "W" -> "w" [] c = "X" -> "x"
      [] c = "Y" -> "y" [] c = "Z" -> "z" [] OTHER -> c

toLowerCase(s) == [i \in 1..Len(s) |-> lowerOf(s[i])]

\* .slice(0, 200)
SanitizeMaxLen == 200

\* [<>"'&]
DangerousChars == {"<", ">", "\"", "'", "&"}

\* .replace(/\s+/g, ' '): every run of white space becomes one space
RECURSIVE collapseWhiteSpace(_)
collapseWhiteSpace(s) ==
    IF s = <<>> THEN <<>>
    ELSE IF Head(s) \in WhiteSpace
         THEN <<" ">> \o collapseWhiteSpace(trimLeft(s))
         ELSE <<Head(s)>> \o collapseWhiteSpace(Tail(s))

\* sanitizeText of validateOrderData
sanitizeText(v) ==
    IF v.t # "str" THEN <<>>
    ELSE LET trimmed == trim(v.s)
             sliced == SubSeq(trimmed, 1, IF Len(trimmed) < SanitizeMaxLen
                                          THEN Len(trimmed) ELSE SanitizeMaxLen)
             cleaned == SelectSeq(sliced, LAMBDA c : c \notin DangerousChars)
         IN collapseWhiteSpace(cleaned)

\* $20 trip fee + $10 per tote, in dollars
TripFee == 20

PerTote == 10

MinTotes == 2

MaxTotes == 10

expectedCost(toteNumber) == TripFee + (toteNumber * PerTote)

\* a tolerance of ten dollars in place of one cent
costDiffExceedsTolerance_Loose(provided, expected) ==
    Abs(provided - 1000 * expected) > 10000

\* Math.abs(providedCost - expectedCost) > 0.01 in IEEE double arithmetic,
\* provided in thousandths of a dollar and expected in whole dollars.  A
\* difference of exactly one cent is decided by rounding: x.01 - x and
\* x - (x - 0.01) come out below 0.01 for x < 64 and above it from 64 on.
costDiffExceedsTolerance(provided, expected) ==
    LET d == Abs(provided - 1000 * expected)
    IN IF d = 10 THEN expected >= 64 ELSE d > 10

\* the orderData of a request: an object with the six fields, a value that is
\* missing, or a non-empty string in place of the object
Order(name, email, phone, address, toteNumber, totalCost) ==
    [t |-> "obj", name |-> name, email |-> email, phone |-> phone,
     address |-> address, toteNumber |-> toteNumber, totalCost |-> totalCost]

NoOrder == [t |-> "null", name |-> Null, email |-> Null, phone |-> Null,
            address |-> Null, toteNumber |-> Null, totalCost |-> Null]

StringOrder == [NoOrder EXCEPT !.t = "str"]

NoData == [name |-> <<>>, email |-> <<>>, phone |-> <<>>, address |-> <<>>,
           toteNumber |-> 0, totalCost |-> 0]

Thrown(message) == [ok |-> FALSE, error |-> message, data |-> NoData]

\* the checks of validateOrderData, taken in the order of the code; the
\* result is the first error thrown, or the sanitized order
validateOrderData(orderData) ==
    LET toteNumber == parseInt(orderData.toteNumber)
        providedCost == parseFloat(orderData.totalCost)
    IN
    IF orderData.t # "obj" THEN Thrown(OrderDataRequired)
    \* a number is converted to its decimal string, which holds no "@"
    ELSE IF falsy(orderData.email) \/ orderData.email.t # "str"
            \/ ~emailRegex(orderData.email.s)
    THEN Thrown(EmailRequired)
    \* the decimal string of a number matches the pattern, and the .length of
    \* a number is undefined, which is not < 10
    ELSE IF falsy(orderData.phone)
            \/ (orderData.phone.t = "str"
                /\ (~phoneRegex(orderData.phone.s) \/ Len(orderData.phone.s) < 10))
    THEN Thrown(PhoneRequired)
    ELSE IF falsy(orderData.name) THEN Thrown(NameRequired)
    ELSE IF orderData.name.t # "str" THEN Thrown(TrimNotAFunction)
    ELSE IF Len(trim(orderData.name.s)) < 2 THEN Thrown(NameRequired)
    ELSE IF falsy(orderData.address) THEN Thrown(AddressRequired)
    ELSE IF orderData.address.t # "str" THEN Thrown(TrimNotAFunction)
    ELSE IF Len(trim(orderData.address.s)) < 10 THEN Thrown(AddressRequired)
    ELSE IF toteNumber.nan \/ toteNumber.v = 0
            \/ toteNumber.v < MinTotes \/ toteNumber.v > MaxTotes
    THEN Thrown(ToteQuantityRange)
    ELSE IF providedCost.nan \/ providedCost.v = 0
            \/ costDiffExceedsTolerance(providedCost.v, expectedCost(toteNumber.v))
    THEN Thrown(InvalidOrderAmount)
    ELSE [ok |-> TRUE, error |-> NoError,
          data |-> [name |-> sanitizeText(orderData.name),
                    email |-> trim(toLowerCase(orderData.email.s)),
                    phone |-> sanitizeText(orderData.phone),
                    address |-> sanitizeText(orderData.address),
                    toteNumber |-> toteNumber.v,
                    totalCost |-> expectedCost(toteNumber.v)]]

\* $40 and $120 in cents
minAmount == 40 * 100

maxAmount == 120 * 100

\* validateAmount without the comparison against the order total
validateAmount_NoMatchCheck(amount, orderData) ==
    IF falsy(amount) \/ amount.t # "num" \/ amount.n <= 0
    THEN InvalidPaymentAmount
    ELSE IF amount.n < minAmount \/ amount.n > maxAmount
    THEN AmountOutOfBounds
    ELSE NoError

\* validateAmount(amount, orderData): the error thrown, or NoError.  The
\* amount is a JSON value whose number is in cents.
validateAmount(amount, orderData) ==
    IF falsy(amount) \/ amount.t # "num" \/ amount.n <= 0
    THEN InvalidPaymentAmount
    ELSE IF amount.n < minAmount \/ amount.n > maxAmount
    THEN AmountOutOfBounds
    ELSE IF amount.n # orderData.totalCost * 100
    THEN AmountMismatch
    ELSE NoError

\* the status code the catch block of the handler gives to an error message
statusCodeFor(message) ==
    IF includes(message, <<"Too", "many", "requests">>) THEN 429
    ELSE IF \/ includes(message, <<"required">>)
            \/ includes(message, <<"Invalid">>)
            \/ includes(message, <<"must", "be">>)
    THEN 400
    ELSE 500

\* the code field of the error body
errorCodeFor(statusCode) ==
    IF statusCode = 429 THEN "RATE_LIMIT_EXCEEDED" ELSE "VALIDATION_ERROR"

\* ------------------------------------------------------------------------
\* State
\* ------------------------------------------------------------------------

VARIABLES
    now,            \* Date.now() of the function's process, in ms
    requestCounts,  \* the Map of create-payment-intent: client IP -> timestamps
    accepted,       \* history: per client IP, the times of the calls the limiter let pass
    limitedIPs,     \* history: the client IPs the limiter has turned away
    event,          \* the event of the last create-payment-intent invocation
    response,       \* its response, with the gateway call it made
    invocations,    \* the create-subscription invocations: position, request, response
    prices,         \* gateway: the recurring prices created, by unit amount in cents
    subscriptions,  \* gateway: the subscriptions created
    customers,      \* gateway: per customer, the default payment method and metadata
    window,         \* the globals of the page the payment scripts keep
    modal,          \* the payment modal of the document
    form,           \* showPaymentModal / initializePaymentForm in flight
    submissions,    \* the handlePaymentSubmission calls: position and history
    toteInput,      \* the value of the tote field of the order form
    costDisplay,    \* the .cost-display element of the order form
    submission,     \* history: the outcome of the last submit of the order form
    calculated,     \* history: the two last applications of calculateSetupCost
    mail            \* history: the last invocation of an email function and its message

intentVars == <<now, requestCounts, accepted, limitedIPs, event, response>>

subVars == <<invocations, prices, subscriptions, customers>>

clientVars == <<window, modal, form, submissions>>

orderVars == <<toteInput, costDisplay, submission, calculated>>

vars == <<intentVars, subVars, clientVars, orderVars, mail>>

\* ------------------------------------------------------------------------
\* create-payment-intent: rate limiter and handler
\* ------------------------------------------------------------------------

\* 1 minute window
windowMs == 60 * 1000

\* Max 5 requests per window
maxRequests == 5

\* the values the x-forwarded-for / x-real-ip headers and the identity of the
\* client context take; "" stands for a header that is absent
HeaderIPs == {"", "203.0.113.7", "198.51.100.9"}

\* event.headers['x-forwarded-for'] || event.headers['x-real-ip'] ||
\* context.clientContext?.identity?.ip || 'unknown'
clientIPOf(e) ==
    IF e.xForwardedFor # "" THEN e.xForwardedFor
    ELSE IF e.xRealIp # "" THEN e.xRealIp
    ELSE IF e.identityIp # "" THEN e.identityIp
    ELSE "unknown"

ClientIPs == (HeaderIPs \ {""}) \cup {"unknown"}

\* the stored list taken whole, no timestamp filtered out
recentRequests_NoFilter(clientIP) == requestCounts[clientIP]

\* requests.filter(timestamp => (now - timestamp) < windowMs)
recentRequests(clientIP) ==
    SelectSeq(requestCounts[clientIP], LAMBDA timestamp : (now - timestamp) < windowMs)

\* > in place of >=
rateLimitExceeded_OffByOne(clientIP) == Len(recentRequests(clientIP)) > maxRequests

\* checkRateLimit throws
rateLimitExceeded(clientIP) == Len(recentRequests(clientIP)) >= maxRequests

\* the timestamp pushed and stored before the limit is checked
checkRateLimit_RecordsRejected(clientIP) ==
    [requestCounts EXCEPT ![clientIP] = Append(recentRequests(clientIP), now)]

\* checkRateLimit(clientIP): the Map after the call; a call that throws
\* leaves the Map as it was
checkRateLimit(clientIP) ==
    IF rateLimitExceeded(clientIP) THEN requestCounts
    ELSE [requestCounts EXCEPT ![clientIP] = Append(recentRequests(clientIP), now)]

Body(amount, orderData) == [t |-> "json", amount |-> amount, orderData |-> orderData]

\* a body JSON.parse throws on
BadJson == [t |-> "badjson", amount |-> Null, orderData |-> NoOrder]

NoCall == [called |-> FALSE, amount |-> 0, metadata |-> NoData, client_ip |-> ""]

\* the arguments of stripe.paymentIntents.create
createArgs(amount, data, clientIP) ==
    [called |-> TRUE, amount |-> amount.n, metadata |-> data, client_ip |-> clientIP]

ErrorResponse(message, created) ==
    [statusCode |-> statusCodeFor(message),
     code |-> errorCodeFor(statusCodeFor(message)),
     error |-> message,
     created |-> created]

\* does the handler get as far as stripe.paymentIntents.create
reachesGateway(e, limited) ==
    /\ ~limited
    /\ e.httpMethod = "POST"
    /\ e.body.t = "json"
    /\ ~falsy(e.body.amount)
    /\ e.body.orderData.t # "null"
    /\ validateOrderData(e.body.orderData).ok
    /\ validateAmount(e.body.amount, validateOrderData(e.body.orderData).data) = NoError

\* the handler with the method check ahead of the limiter
handlerResponse_MethodCheckFirst(e, limited, gatewayError) ==
    LET validated == validateOrderData(e.body.orderData)
        amountError == validateAmount(e.body.amount, validated.data)
        args == createArgs(e.body.amount, validated.data, clientIPOf(e))
    IN
    IF e.httpMethod # "POST"
    THEN [statusCode |-> 405, code |-> "none", error |-> MethodNotAllowed,
          created |-> NoCall]
    ELSE IF limited THEN ErrorResponse(TooManyRequests, NoCall)
    ELSE IF e.body.t # "json" THEN ErrorResponse(InvalidRequestFormat, NoCall)
    ELSE IF falsy(e.body.amount) \/ e.body.orderData.t = "null"
    THEN ErrorResponse(MissingAmountOrOrder, NoCall)
    ELSE IF ~validated.ok THEN ErrorResponse(validated.error, NoCall)
    ELSE IF amountError # NoError THEN ErrorResponse(amountError, NoCall)
    ELSE IF gatewayError # NoError THEN ErrorResponse(gatewayError, args)
    ELSE [statusCode |-> 200, code |-> "none", error |-> NoError, created |-> args]

\* exports.handler of create-payment-intent, after checkRateLimit has thrown
\* (limited) or not; gatewayError is the message of the error
\* stripe.paymentIntents.create throws, NoError when it returns
handlerResponse(e, limited, gatewayError) ==
    LET validated == validateOrderData(e.body.orderData)
        amountError == validateAmount(e.body.amount, validated.data)
        args == createArgs(e.body.amount, validated.data, clientIPOf(e))
    IN
    IF limited THEN ErrorResponse(TooManyRequests, NoCall)
    ELSE IF e.httpMethod # "POST"
    THEN [statusCode |-> 405, code |-> "none", error |-> MethodNotAllowed,
          created |-> NoCall]
    ELSE IF e.body.t # "json" THEN ErrorResponse(InvalidRequestFormat, NoCall)
    ELSE IF falsy(e.body.amount) \/ e.body.orderData.t = "null"
    THEN ErrorResponse(MissingAmountOrOrder, NoCall)
    ELSE IF ~validated.ok THEN ErrorResponse(validated.error, NoCall)
    ELSE IF amountError # NoError THEN ErrorResponse(amountError, NoCall)
    ELSE IF gatewayError # NoError THEN ErrorResponse(gatewayError, args)
    ELSE [statusCode |-> 200, code |-> "none", error |-> NoError, created |-> args]

NoEvent ==
    [httpMethod |-> "none", xForwardedFor |-> "", xRealIp |-> "", identityIp |-> "",
     body |-> BadJson]

NoResponse == [statusCode |-> 0, code |-> "none", error |-> NoError, created |-> NoCall]

InitIntent ==
    /\ now = 0
    /\ requestCounts = [ip \in ClientIPs |-> <<>>]
    /\ accepted = [ip \in ClientIPs |-> <<>>]
    /\ limitedIPs = {}
    /\ event = NoEvent
    /\ response = NoResponse

\* one invocation of the create-payment-intent function.  The limiter runs
\* before the first await, so concurrent invocations in one process take it
\* one at a time.
CreatePaymentIntent(e) ==
    LET clientIP == clientIPOf(e)
        limited == rateLimitExceeded(clientIP)
    IN
    /\ \E gatewayError \in (IF reachesGateway(e, limited)
                            THEN {NoError} \cup GatewayErrors ELSE {NoError}) :
          response' = handlerResponse(e, limited, gatewayError)
    /\ requestCounts' = checkRateLimit(clientIP)
    /\ accepted' = IF limited THEN accepted
                   ELSE [accepted EXCEPT ![clientIP] = Append(@, now)]
    /\ limitedIPs' = IF limited THEN limitedIPs \cup {clientIP} ELSE limitedIPs
    /\ event' = e
    /\ UNCHANGED <<now, subVars, clientVars, orderVars, mail>>

\* ------------------------------------------------------------------------
\* create-payment-intent: the requests the model sends
\* ------------------------------------------------------------------------

JaneDoe == <<"J", "a", "n", "e", " ", "D", "o", "e">>

JaneEmail ==
    <<"J", "a", "n", "e", "@", "E", "x", "a", "m", "p", "l", "e", ".", "c", "o", "m">>

JanePhone == <<"8", "2", "8", "1", "2", "3", "4", "5", "6", "7">>

MainStreet ==
    <<"1", "2", "3", " ", "M", "a", "i", "n", " ", "S", "t", "r", "e", "e", "t">>

\* names: one character once trimmed, markup, a number in place of the string
NameInputs ==
    { Str(<<" ", "J", " ">>), Str(<<"<", "b", ">", "J", "o", " ", " ", "D">>),
      Num(42), Null }

\* emails: no "@", a one-letter top-level domain, an empty local part
EmailInputs ==
    { Str(<<"j", "a", "n", "e", ".", "c", "o", "m">>),
      Str(<<"j", "@", "e", "x", ".", "c">>),
      Str(<<"@", "e", "x", ".", "c", "o">>),
      Str(<<"a", "+", "b", "@", "x", "-", "y", ".", "i", "o">>),
      Num(42), Null }

\* phones: nine digits, a letter, punctuation, a number in place of the string
PhoneInputs ==
    { Str(<<"8", "2", "8", "1", "2", "3", "4", "5", "6">>),
      Str(<<"8", "2", "8", "1", "2", "3", "4", "5", "6", "x">>),
      Str(<<"(", "8", "2", "8", ")", " ", "1", "2", "3", "-", "4", "5", "6", "7">>),
      Num(828123456), Null }

\* addresses: eight characters, nine once trimmed
AddressInputs ==
    { Str(<<"1", "2", "3", " ", "M", "a", "i", "n">>),
      Str(<<" ", "1", "2", "3", " ", "M", "a", "i", "n", "e", " ">>),
      Num(123), Null }

\* tote counts, as numbers and as the strings a form sends
ToteInputs ==
    { Num(2), Num(5), Num(10), Num(1), Num(11), Num(0),
      Str(<<"5">>), Str(<<"7", " ", "t", "o", "t", "e", "s">>), Str(<<"a", "b", "c">>),
      Null }

\* declared total costs, in thousandths of a dollar
CostInputs ==
    { Num(40000), Num(70000), Num(120000), Num(70005), Num(70010), Num(40010),
      Num(69989), Num(60000), Str(<<"7", "0", ".", "0", "0">>), Null }

\* amounts, in cents
AmountInputs ==
    { Num(4000), Num(7000), Num(12000), Num(6000), Num(3999), Num(12001),
      Num(1), Num(0), Num(-7000), Str(<<"7", "0", "0", "0">>), Null }

JaneOrder(toteNumber, totalCost) ==
    Order(Str(JaneDoe), Str(JaneEmail), Str(JanePhone), Str(MainStreet),
          toteNumber, totalCost)

\* orders that differ in tote count and declared cost
CostOrders == { JaneOrder(t, c) : t \in ToteInputs, c \in CostInputs }

\* orders of 5 totes for $70 in which one or two fields are not valid
FieldOrders ==
    { Order(n, Str(JaneEmail), Str(JanePhone), Str(MainStreet), Num(5), Num(70000)) :
        n \in NameInputs }
    \cup { Order(Str(JaneDoe), m, Str(JanePhone), Str(MainStreet), Num(5), Num(70000)) :
        m \in EmailInputs }
    \cup { Order(Str(JaneDoe), Str(JaneEmail), p, Str(MainStreet), Num(5), Num(70000)) :
        p \in PhoneInputs }
    \cup { Order(Str(JaneDoe), Str(JaneEmail), Str(JanePhone), a, Num(5), Num(70000)) :
        a \in AddressInputs }
    \cup { Order(Null, Null, Str(JanePhone), Str(MainStreet), Num(1), Num(70000)),
           Order(Str(JaneDoe), Str(JaneEmail), Null, Null, Num(5), Num(10000)),
           \* no name and an email without "@"; no address and a nine-digit phone
           Order(Null, Str(<<"j", "a", "n", "e", ".", "c", "o", "m">>), Str(JanePhone),
                 Str(MainStreet), Num(5), Num(70000)),
           Order(Str(JaneDoe), Str(JaneEmail),
                 Str(<<"8", "2", "8", "1", "2", "3", "4", "5", "6">>), Null,
                 Num(5), Num(70000)) }

Post(xff, xri, identity, body) ==
    [httpMethod |-> "POST", xForwardedFor |-> xff, xRealIp |-> xri,
     identityIp |-> identity, body |-> body]

\* orders whose tote count and declared cost agree
CoreOrders ==
    { JaneOrder(t, c) : t \in {Num(2), Num(5), Num(10), Str(<<"5">>)},
                        c \in {Num(40000), Num(70000), Num(120000)} }

\* the requests of the validation model: one client, every body
IntentEvents ==
    { Post("203.0.113.7", "", "", Body(a, o)) :
        a \in AmountInputs, o \in CoreOrders }
    \cup { Post("203.0.113.7", "", "", Body(a, o)) :
        a \in {Num(7000), Num(4000)}, o \in CostOrders }
    \cup { Post("203.0.113.7", "", "", Body(a, o)) :
        a \in {Num(7000), Null}, o \in FieldOrders \cup {NoOrder, StringOrder} }
    \cup { Post("203.0.113.7", "", "", BadJson) }
    \cup { [Post("203.0.113.7", "", "", Body(Num(7000), JaneOrder(Num(5), Num(70000))))
               EXCEPT !.httpMethod = m] : m \in {"GET", "OPTIONS"} }

\* the requests of the limiter model: two clients, one of them found through
\* each of the three places the handler looks an address up in
LimiterEvents ==
    { Post("203.0.113.7", "198.51.100.9", "", Body(Num(7000), JaneOrder(Num(5), Num(70000)))),
      [Post("", "203.0.113.7", "", BadJson) EXCEPT !.httpMethod = "GET"],
      [Post("", "203.0.113.7", "", BadJson) EXCEPT !.httpMethod = "OPTIONS"],
      Post("", "", "203.0.113.7", Body(Num(6000), JaneOrder(Num(5), Num(70000)))),
      Post("", "", "", Body(Num(7000), JaneOrder(Num(5), Num(70000)))) }

\* ------------------------------------------------------------------------
\* create-subscription: request validation
\* ------------------------------------------------------------------------

\* a string the code never takes apart (an id), kept as one unit
Id(x) == [t |-> "str", n |-> 0, s |-> <<x>>]

\* the conversion to a number that < and > apply to an operand: a string of
\* digits is its value, any other string is NaN
toNumber(v) ==
    IF v.t = "num" THEN Number(v.n)
    ELSE IF v.t = "null" THEN Number(0)
    ELSE IF v.s # <<>> /\ allIn(v.s, Digits) THEN Number(digitsValue(v.s))
    ELSE NaN

\* a < b and a > b of JavaScript: false as soon as an operand is NaN
lessThan(v, bound) == ~toNumber(v).nan /\ toNumber(v).v < bound

greaterThan(v, bound) == ~toNumber(v).nan /\ toNumber(v).v > bound

MissingSubscriptionData ==
    <<"Missing", "payment", "intent", "ID", ",", "customer", "ID", ",", "or",
      "monthly", "amount">>

InvalidMonthlyAmount == <<"Invalid", "monthly", "amount">>

NotSucceededYet == <<"Payment", "intent", "has", "not", "succeeded", "yet">>

NoPaymentMethodFound ==
    <<"No", "payment", "method", "found", "on", "payment", "intent">>

\* the message of an error a gateway call of create-subscription throws
SubscriptionGatewayError == <<"No", "such", "resource">>

\* the valid monthly range, in dollars
MinMonthly == 20

MaxMonthly == 100

SubscriptionBody(payment_intent_id, customer_id, monthly_amount, tote_quantity) ==
    [t |-> "json", payment_intent_id |-> payment_intent_id,
     customer_id |-> customer_id, monthly_amount |-> monthly_amount,
     tote_quantity |-> tote_quantity]

\* a body JSON.parse throws on
BadSubscriptionJson ==
    [SubscriptionBody(Null, Null, Null, Null) EXCEPT !.t = "badjson"]

\* the error the handler throws before its first gateway call, or NoError
subscriptionRequestError(body) ==
    IF body.t # "json" THEN InvalidRequestFormat
    ELSE IF falsy(body.payment_intent_id) \/ falsy(body.customer_id)
            \/ falsy(body.monthly_amount)
    THEN MissingSubscriptionData
    ELSE IF lessThan(body.monthly_amount, MinMonthly)
            \/ greaterThan(body.monthly_amount, MaxMonthly)
    THEN InvalidMonthlyAmount
    ELSE NoError

\* ------------------------------------------------------------------------
\* create-subscription: the gateway and the handler, one await at a time
\* ------------------------------------------------------------------------

\* the payment intents the gateway holds; an id outside the table makes
\* stripe.paymentIntents.retrieve throw
PaymentIntentTable ==
    [id \in {"pi_paid", "pi_unpaid", "pi_processing", "pi_nomethod"} |->
        CASE id = "pi_paid" -> [status |-> "succeeded", payment_method |-> "pm_card"]
          [] id = "pi_unpaid" ->
                [status |-> "requires_payment_method", payment_method |-> ""]
          [] id = "pi_processing" ->
                [status |-> "processing", payment_method |-> "pm_card"]
          [] id = "pi_nomethod" -> [status |-> "succeeded", payment_method |-> ""]]

NoPaymentIntent == [status |-> "", payment_method |-> ""]

\* the customers the gateway holds; stripe.customers.update throws for others
KnownCustomers == {"cus_jane"}

\* the invocations the model follows
MaxInvocations == 2

Invocations == 1..MaxInvocations

NoSubscriptionRequest == [httpMethod |-> "none", body |-> BadSubscriptionJson]

NoSubscriptionResponse ==
    [statusCode |-> 0, error |-> NoError, subscription_id |-> 0, monthly_amount |-> Null]

IdleInvocation ==
    [pc |-> "idle", request |-> NoSubscriptionRequest, paymentIntent |-> NoPaymentIntent,
     price |-> 0, subscription |-> 0, calls |-> <<>>, response |-> NoSubscriptionResponse]

InitSubscription ==
    /\ invocations = [k \in Invocations |-> IdleInvocation]
    /\ prices = <<>>
    /\ subscriptions = <<>>
    /\ customers = [c \in KnownCustomers |->
                        [default_payment_method |-> "", subscription_id |-> 0]]

\* the catch block: every error becomes a 500 that carries its message
failed(inv, call, message) ==
    [inv EXCEPT !.pc = "done",
                !.calls = IF call = "" THEN @ ELSE Append(@, call),
                !.response = [NoSubscriptionResponse EXCEPT !.statusCode = 500,
                                                            !.error = message]]

\* the checks on the payment intent, the status left unchecked
paymentIntentError_NoStatusCheck(paymentIntent) ==
    IF paymentIntent.payment_method = "" THEN NoPaymentMethodFound
    ELSE NoError

\* the checks on the payment intent stripe.paymentIntents.retrieve returned
paymentIntentError(paymentIntent) ==
    IF paymentIntent.status # "succeeded" THEN NotSucceededYet
    ELSE IF paymentIntent.payment_method = "" THEN NoPaymentMethodFound
    ELSE NoError

\* from the method check to the call of stripe.paymentIntents.retrieve
SubscriptionStart(k, request) ==
    /\ invocations[k].pc = "idle"
    /\ \A j \in 1..(k - 1) : invocations[j].pc # "idle"
    /\ invocations' = [invocations EXCEPT ![k] =
         IF request.httpMethod # "POST"
         THEN [@ EXCEPT !.pc = "done", !.request = request,
                        !.response = [NoSubscriptionResponse EXCEPT
                                          !.statusCode = 405, !.error = MethodNotAllowed]]
         ELSE IF subscriptionRequestError(request.body) # NoError
         THEN failed([@ EXCEPT !.request = request], "",
                     subscriptionRequestError(request.body))
         ELSE [@ EXCEPT !.pc = "retrieve", !.request = request]]
    /\ UNCHANGED <<prices, subscriptions, customers, intentVars, clientVars, orderVars, mail>>

\* stripe.paymentIntents.retrieve settles: status and payment method checked,
\* stripe.customers.update called
SubscriptionRetrieved(k, threw) ==
    LET inv == invocations[k]
        id == inv.request.body.payment_intent_id.s[1]
        known == id \in DOMAIN PaymentIntentTable
    IN
    /\ inv.pc = "retrieve"
    /\ invocations' = [invocations EXCEPT ![k] =
         IF threw \/ ~known
         THEN failed(inv, "paymentIntents.retrieve", SubscriptionGatewayError)
         ELSE IF paymentIntentError(PaymentIntentTable[id]) # NoError
         THEN failed([inv EXCEPT !.paymentIntent = PaymentIntentTable[id]],
                     "paymentIntents.retrieve",
                     paymentIntentError(PaymentIntentTable[id]))
         ELSE [inv EXCEPT !.pc = "setDefault",
                          !.paymentIntent = PaymentIntentTable[id],
                          !.calls = Append(@, "paymentIntents.retrieve")]]
    /\ UNCHANGED <<prices, subscriptions, customers, intentVars, clientVars, orderVars, mail>>

\* stripe.customers.update (default payment method) settles; createOrFindPrice
\* calls stripe.prices.list
SubscriptionDefaultSet(k, threw) ==
    LET inv == invocations[k]
        customer == inv.request.body.customer_id.s[1]
        fails == threw \/ customer \notin KnownCustomers
    IN
    /\ inv.pc = "setDefault"
    /\ invocations' = [invocations EXCEPT ![k] =
         IF fails THEN failed(inv, "customers.update", SubscriptionGatewayError)
         ELSE [inv EXCEPT !.pc = "listPrices", !.calls = Append(@, "customers.update")]]
    /\ customers' = IF fails THEN customers
                    ELSE [customers EXCEPT ![customer].default_payment_method =
                                               inv.paymentIntent.payment_method]
    /\ UNCHANGED <<prices, subscriptions, intentVars, clientVars, orderVars, mail>>

\* monthlyAmount * 100
priceAmountCents(monthly_amount) ==
    IF toNumber(monthly_amount).nan THEN NaN
    ELSE Number(toNumber(monthly_amount).v * 100)

\* the prices stripe.prices.list finds for a unit amount
matchingPrices(amount) == { p \in DOMAIN prices : prices[p] = amount }

\* stripe.prices.list settles: an existing price is taken, or
\* stripe.prices.create is called
SubscriptionPricesListed(k, threw) ==
    LET inv == invocations[k]
        cents == priceAmountCents(inv.request.body.monthly_amount)
        found == IF cents.nan THEN {} ELSE matchingPrices(cents.v)
        \* limit: 1 returns the most recent one
        newest == CHOOSE p \in found : \A q \in found : q <= p
    IN
    /\ inv.pc = "listPrices"
    /\ invocations' = [invocations EXCEPT ![k] =
         IF threw \/ cents.nan
         THEN failed(inv, "prices.list", SubscriptionGatewayError)
         ELSE IF found # {}
         THEN [inv EXCEPT !.pc = "createSubscription", !.price = newest,
                          !.calls = Append(@, "prices.list")]
         ELSE [inv EXCEPT !.pc = "createPrice", !.calls = Append(@, "prices.list")]]
    /\ UNCHANGED <<prices, subscriptions, customers, intentVars, clientVars, orderVars, mail>>

\* stripe.prices.create settles; stripe.subscriptions.create is called
SubscriptionPriceCreated(k, threw) ==
    LET inv == invocations[k]
        cents == priceAmountCents(inv.request.body.monthly_amount)
    IN
    /\ inv.pc = "createPrice"
    /\ invocations' = [invocations EXCEPT ![k] =
         IF threw THEN failed(inv, "prices.create", SubscriptionGatewayError)
         ELSE [inv EXCEPT !.pc = "createSubscription", !.price = Len(prices) + 1,
                          !.calls = Append(@, "prices.create")]]
    /\ prices' = IF threw THEN prices ELSE Append(prices, cents.v)
    /\ UNCHANGED <<subscriptions, customers, intentVars, clientVars, orderVars, mail>>

\* tote_quantity || 'unknown'
toteQuantityMetadata(tote_quantity) ==
    IF falsy(tote_quantity) THEN Id("unknown") ELSE tote_quantity

\* stripe.subscriptions.create settles; stripe.customers.update (metadata) is
\* called
SubscriptionCreated(k, threw) ==
    LET inv == invocations[k]
        body == inv.request.body
    IN
    /\ inv.pc = "createSubscription"
    /\ invocations' = [invocations EXCEPT ![k] =
         IF threw THEN failed(inv, "subscriptions.create", SubscriptionGatewayError)
         ELSE [inv EXCEPT !.pc = "setMetadata", !.subscription = Len(subscriptions) + 1,
                          !.calls = Append(@, "subscriptions.create")]]
    /\ subscriptions' =
         IF threw THEN subscriptions
         ELSE Append(subscriptions,
                     [customer |-> body.customer_id.s[1],
                      price |-> inv.price,
                      default_payment_method |-> inv.paymentIntent.payment_method,
                      original_payment_intent |-> body.payment_intent_id.s[1],
                      tote_quantity |-> toteQuantityMetadata(body.tote_quantity)])
    /\ UNCHANGED <<prices, customers, intentVars, clientVars, orderVars, mail>>

\* stripe.customers.update (metadata) settles; the 200 response is returned
SubscriptionMetadataSet(k, threw) ==
    LET inv == invocations[k]
        customer == inv.request.body.customer_id.s[1]
    IN
    /\ inv.pc = "setMetadata"
    /\ invocations' = [invocations EXCEPT ![k] =
         IF threw THEN failed(inv, "customers.update", SubscriptionGatewayError)
         ELSE [inv EXCEPT !.pc = "done", !.calls = Append(@, "customers.update"),
                          !.response =
                              [statusCode |-> 200, error |-> NoError,
                               subscription_id |-> inv.subscription,
                               monthly_amount |-> inv.request.body.monthly_amount]]]
    /\ customers' = IF threw THEN customers
                    ELSE [customers EXCEPT ![customer].subscription_id = inv.subscription]
    /\ UNCHANGED <<prices, subscriptions, intentVars, clientVars, orderVars, mail>>

SubscriptionPost(body) == [httpMethod |-> "POST", body |-> body]

\* the requests the model sends to create-subscription
SubscriptionRequests ==
    { SubscriptionPost(SubscriptionBody(Id(p), Id("cus_jane"), Num(50), Num(5))) :
        p \in {"pi_paid", "pi_unpaid", "pi_processing", "pi_nomethod", "pi_unknown"} }
    \cup { SubscriptionPost(SubscriptionBody(Id("pi_paid"), Id("cus_jane"), Num(30), Num(3))),
           SubscriptionPost(SubscriptionBody(Id("pi_paid"), Id("cus_gone"), Num(50), Num(5))),
           SubscriptionPost(SubscriptionBody(Id("pi_paid"), Null, Num(50), Num(5))),
           SubscriptionPost(SubscriptionBody(Id("pi_paid"), Id("cus_jane"), Num(50), Null)),
           SubscriptionPost(SubscriptionBody(Id("pi_paid"), Id("cus_jane"), Num(50), Num(2))),
           SubscriptionPost(SubscriptionBody(Id("pi_paid"), Id("cus_jane"), Num(101), Num(5))),
           SubscriptionPost(SubscriptionBody(Id("pi_paid"), Id("cus_jane"),
                                             Str(<<"a", "b", "c">>), Num(5))),
           SubscriptionPost(BadSubscriptionJson),
           [SubscriptionPost(SubscriptionBody(Id("pi_paid"), Id("cus_jane"), Num(50), Num(5)))
               EXCEPT !.httpMethod = "GET"],
           [SubscriptionPost(SubscriptionBody(Null, Null, Null, Null))
               EXCEPT !.httpMethod = "OPTIONS"] }

Start == \E k \in Invocations, r \in SubscriptionRequests : SubscriptionStart(k, r)

Retrieved == \E k \in Invocations, threw \in BOOLEAN : SubscriptionRetrieved(k, threw)

DefaultSet == \E k \in Invocations, threw \in BOOLEAN : SubscriptionDefaultSet(k, threw)

PricesListed == \E k \in Invocations, threw \in BOOLEAN : SubscriptionPricesListed(k, threw)

PriceCreated == \E k \in Invocations, threw \in BOOLEAN : SubscriptionPriceCreated(k, threw)

Created == \E k \in Invocations, threw \in BOOLEAN : SubscriptionCreated(k, threw)

MetadataSet == \E k \in Invocations, threw \in BOOLEAN : SubscriptionMetadataSet(k, threw)

NextSubscription ==
    Start \/ Retrieved \/ DefaultSet \/ PricesListed \/ PriceCreated \/ Created
    \/ MetadataSet

\* ------------------------------------------------------------------------
\* Payment page: the modal and the payment handlers, one await at a time.
\* The page is one on which initializeStripe succeeded, so that `stripe` is
\* set and the modal's listeners are attached.
\* ------------------------------------------------------------------------

OrderDataNotFound == <<"Order", "data", "not", "found">>

\* `Subscription creation failed: ${response.status}`
SubscriptionCreationFailed == <<"Subscription", "creation", "failed:", "500">>

\* the error field of a 2xx body
SubscriptionErrorBody == <<"subscription", "error">>

\* the message of the error a rejected fetch carries
FailedToFetch == <<"Failed", "to", "fetch">>

\* the message of the error an AnalyticsTracker call throws
AnalyticsError == <<"gtag", "is", "not", "defined">>

PaymentFormNotLoaded ==
    <<"Payment", "form", "not", "properly", "loaded.", "Please", "refresh", "and",
      "try", "again.">>

FailedToLoadPaymentForm ==
    <<"Failed", "to", "load", "payment", "form.", "Please", "try", "again.">>

PaymentDeclined == <<"Your", "card", "was", "declined.">>

PaymentStatusUnclear ==
    <<"Payment", "status", "unclear.", "Please", "check", "your", "email", "for",
      "confirmation.">>

UnexpectedPaymentError ==
    <<"An", "unexpected", "error", "occurred", "during", "payment.", "Please",
      "try", "again.">>

\* the clicks on the submit button the model follows
MaxSubmissions == 2

Submissions == 1..MaxSubmissions

\* the tote counts of the orders the form sends to showPaymentModal
PageTotes == {5}

\* the orderData processOrderSubmission builds
pageOrder(toteNumber) == JaneOrder(Num(toteNumber), Num(expectedCost(toteNumber) * 1000))

\* the payment intent stripe.confirmPayment resolves with
ConfirmedPaymentIntent == Id("pi_paid")

IdleSubmission ==
    [pc |-> "idle",
     button |-> FALSE,          \* is the submit button it holds still in the document
     secret |-> Null,           \* the client secret of the elements confirmPayment was given
     request |-> BadSubscriptionJson,  \* the body of its create-subscription fetch
     requests |-> 0,            \* history: create-subscription fetches issued
     confirmed |-> FALSE,       \* history: confirmPayment resolved with a paymentIntent
     result |-> "none",         \* history: how confirmPayment settled
     failures |-> 0,            \* history: showPaymentError calls for a payment that failed
     subscriptionFailed |-> FALSE,  \* history: the catch of createSubscriptionAfterPayment ran
     outcome |-> "none",        \* history: its create-subscription attempt "failed" or "created"
     mailed |-> "none",         \* the subscription status the emails it is sending were built with
     reported |-> "none",       \* history: the subscription status showPaymentSuccess showed
     paymentErrors |-> 0,       \* history: showPaymentError calls after confirmation
     successes |-> 0,           \* history: showPaymentSuccess calls
     emailFailed |-> FALSE]     \* history: an email of it was not sent

\* the page before its scripts have set a global.  window.currentCustomerId
\* is read by createSubscriptionAfterPayment and assigned by no script of
\* the page, so it stays undefined.
InitClient ==
    /\ window = [AnalyticsTracker |-> FALSE,
                 currentElements |-> Null,
                 currentPaymentElement |-> Null,
                 currentClientSecret |-> Null,
                 currentOrderData |-> NoOrder,
                 currentCustomerId |-> Null,
                 currentSubscriptionData |-> NoSubscriptionResponse,
                 subscriptionCreationFailed |-> FALSE,
                 subscriptionError |-> NoError]
    /\ modal = [display |-> "none", body |-> "form", submitDisabled |-> FALSE,
                errors |-> NoError]
    /\ form = [pc |-> "idle", orderData |-> NoOrder]
    /\ submissions = [k \in Submissions |-> IdleSubmission]

\* the subscription status showPaymentSuccess, sendCustomerReceipt and
\* sendBusinessNotification read from the globals: the stored subscription
\* first, then the failure flag
subscriptionStatus(w) ==
    IF w.currentSubscriptionData.statusCode = 200 THEN "active"
    ELSE IF w.subscriptionCreationFailed THEN "failed"
    ELSE "pending"

\* showPaymentError(message): the text of #payment-errors, when the modal
\* body holds that element
showPaymentError(m, message) ==
    IF m.body = "form" THEN [m EXCEPT !.errors = message] ELSE m

hidePaymentError(m) == IF m.body = "form" THEN [m EXCEPT !.errors = NoError] ELSE m

\* showPaymentSuccess(): the modal body is replaced by the success message
showPaymentSuccess(m) ==
    [m EXCEPT !.body = "success", !.submitDisabled = FALSE, !.errors = NoError]

\* the finally block of handlePaymentSubmission: it enables the button the
\* handler looked up when it started, which is the button of the document
\* only as long as the modal body has not been replaced
restoreButton(m, attached) ==
    IF attached /\ m.body = "form" THEN [m EXCEPT !.submitDisabled = FALSE] ELSE m

\* the modal body was replaced: the handlers in flight hold elements that are
\* no longer in the document
detached(subs) == [j \in Submissions |-> [subs[j] EXCEPT !.button = FALSE]]

\* the analytics script has run: window.AnalyticsTracker = AnalyticsTracker
AnalyticsLoaded ==
    /\ ~window.AnalyticsTracker
    /\ window' = [window EXCEPT !.AnalyticsTracker = TRUE]
    /\ UNCHANGED <<modal, form, submissions, intentVars, subVars, orderVars, mail>>

\* showPaymentModal(orderData) up to the fetch of initializePaymentForm
ShowPaymentModal(toteNumber, trackerThrows) ==
    /\ form.pc = "idle"
    /\ IF (window.AnalyticsTracker /\ trackerThrows) \/ modal.body # "form"
       THEN UNCHANGED <<modal, form>>
       ELSE /\ modal' = [modal EXCEPT !.display = "flex"]
            /\ form' = [pc |-> "loading", orderData |-> pageOrder(toteNumber)]
    /\ UNCHANGED <<window, submissions, intentVars, subVars, orderVars, mail>>

\* the client secret in the response of create-payment-intent: every request
\* creates a payment intent of its own, so the secret differs from those of
\* the confirmations still pending; it is named by the least free number
freshClientSecret ==
    LET pending == { submissions[k].secret :
                         k \in { j \in Submissions : submissions[j].pc = "confirming" } }
        free == { i \in 1..(MaxSubmissions + 1) : Id(ToString(i)) \notin pending }
    IN Id(ToString(CHOOSE i \in free : \A j \in free : i <= j))

\* initializePaymentForm from the response of create-payment-intent on
PaymentFormLoaded(ok) ==
    /\ form.pc = "loading"
    /\ form' = [pc |-> "idle", orderData |-> NoOrder]
    /\ IF ok
       THEN /\ window' = [window EXCEPT !.currentElements = Id("elements"),
                                        !.currentPaymentElement = Id("payment"),
                                        !.currentClientSecret = freshClientSecret,
                                        !.currentOrderData = form.orderData]
            /\ UNCHANGED modal
       ELSE /\ modal' = showPaymentError(modal, FailedToLoadPaymentForm)
            /\ UNCHANGED window
    /\ UNCHANGED <<submissions, intentVars, subVars, orderVars, mail>>

\* closePaymentModal(), with resetModalContent()
ClosePaymentModal ==
    /\ modal.display = "flex"
    /\ modal' = [display |-> "none", body |-> "form", submitDisabled |-> FALSE,
                 errors |-> NoError]
    /\ window' = [window EXCEPT !.currentPaymentElement = Null,
                                !.currentElements = Null,
                                !.currentOrderData = NoOrder,
                                !.currentClientSecret = Null]
    /\ submissions' = detached(submissions)
    /\ UNCHANGED <<form, intentVars, subVars, orderVars, mail>>

\* the loading state without the button being disabled
loadingState_ButtonLeftEnabled(m) == hidePaymentError(m)

\* the loading state handlePaymentSubmission puts the form in before it calls
\* stripe.confirmPayment: the submit button disabled, the error text hidden
loadingState(m) == [hidePaymentError(m) EXCEPT !.submitDisabled = TRUE]

\* handlePaymentSubmission up to the call of stripe.confirmPayment, which is
\* given window.currentElements, the elements made from
\* window.currentClientSecret
HandlePaymentSubmission(k) ==
    /\ modal.display = "flex" /\ modal.body = "form" /\ ~modal.submitDisabled
    /\ submissions[k].pc = "idle"
    /\ \A j \in 1..(k - 1) : submissions[j].pc # "idle"
    /\ IF falsy(window.currentElements) \/ falsy(window.currentClientSecret)
          \/ window.currentOrderData.t # "obj"
       THEN /\ modal' = showPaymentError(modal, PaymentFormNotLoaded)
            /\ UNCHANGED submissions
       ELSE /\ modal' = loadingState(modal)
            /\ submissions' = [submissions EXCEPT ![k] =
                                  [@ EXCEPT !.pc = "confirming", !.button = TRUE,
                                            !.secret = window.currentClientSecret]]
    /\ UNCHANGED <<window, form, intentVars, subVars, orderVars, mail>>

\* the body of the create-subscription request createSubscriptionAfterPayment
\* builds; JSON.stringify leaves an undefined customer_id out
subscriptionRequest(paymentIntent) ==
    SubscriptionBody(paymentIntent, window.currentCustomerId,
                     Num(window.currentOrderData.toteNumber.n * 10),
                     window.currentOrderData.toteNumber)

\* result.error is not looked at
confirmationBranch_NoErrorCheck(result) ==
    IF result \in {"error", "paymentIntent"} THEN "paymentIntent"
    ELSE IF result = "unclear" THEN "unclear"
    ELSE "catch"

\* the branch handlePaymentSubmission takes when stripe.confirmPayment
\* settles: with result.error, with result.paymentIntent, with neither, or by
\* rejecting into the catch
confirmationBranch(result) ==
    IF result = "error" THEN "error"
    ELSE IF result = "paymentIntent" THEN "paymentIntent"
    ELSE IF result = "unclear" THEN "unclear"
    ELSE "catch"

\* stripe.confirmPayment settles.  An error, an unclear result and a rejection
\* end the handler with showPaymentError.  A paymentIntent starts
\* createSubscriptionAfterPayment: without window.currentOrderData it throws
\* into its own catch, and handlePaymentSuccess, which then has no analytics
\* call and no email to send, runs to showPaymentSuccess in the same turn;
\* otherwise the create-subscription fetch is issued.
PaymentConfirmed(k, result) ==
    LET sub == submissions[k]
        branch == confirmationBranch(result)
    IN
    /\ sub.pc = "confirming"
    /\ IF branch = "paymentIntent" /\ window.currentOrderData.t = "obj"
       THEN /\ submissions' = [submissions EXCEPT ![k] =
                  [@ EXCEPT !.pc = "subscribing", !.confirmed = TRUE, !.result = result,
                            !.secret = Null,
                            !.request = subscriptionRequest(ConfirmedPaymentIntent),
                            !.requests = @ + 1]]
            /\ UNCHANGED <<window, modal>>
       ELSE IF branch = "paymentIntent"
       THEN /\ window' = [window EXCEPT !.subscriptionCreationFailed = TRUE,
                                        !.subscriptionError = OrderDataNotFound]
            /\ modal' = showPaymentSuccess(modal)
            /\ submissions' = [detached(submissions) EXCEPT ![k] =
                  [@ EXCEPT !.pc = "done", !.confirmed = TRUE, !.result = result,
                            !.secret = Null,
                            !.subscriptionFailed = TRUE, !.successes = @ + 1,
                            !.outcome = "failed",
                            !.reported = subscriptionStatus(window')]]
       ELSE /\ modal' = restoreButton(
                           showPaymentError(modal,
                               CASE branch = "error" -> PaymentDeclined
                                 [] branch = "unclear" -> PaymentStatusUnclear
                                 [] OTHER -> UnexpectedPaymentError),
                           sub.button)
            /\ submissions' = [submissions EXCEPT ![k] =
                  [@ EXCEPT !.pc = "done", !.result = result, !.secret = Null,
                            !.failures = @ + 1]]
            /\ UNCHANGED window
    /\ UNCHANGED <<form, intentVars, subVars, orderVars, mail>>

\* the outcomes of the create-subscription fetch: it rejects, or it resolves
\* with a status that is not ok, with a 2xx body that has an error field, or
\* with the 200 body of the function, which the function gives only to a
\* request that passes its validation
fetchOutcomes(request) ==
    {"rejected", "notOk", "errorBody"}
    \cup (IF subscriptionRequestError(request) = NoError THEN {"created"} ELSE {})

\* window after createSubscriptionAfterPayment has dealt with the outcome
afterSubscription(request, outcome, trackerThrows) ==
    IF outcome = "created"
    THEN LET stored == [window EXCEPT !.currentSubscriptionData =
                            [statusCode |-> 200, error |-> NoError,
                             subscription_id |-> 1,
                             monthly_amount |-> request.monthly_amount]]
         IN IF window.AnalyticsTracker /\ trackerThrows
            THEN [stored EXCEPT !.subscriptionCreationFailed = TRUE,
                                !.subscriptionError = AnalyticsError]
            ELSE stored
    ELSE [window EXCEPT !.subscriptionCreationFailed = TRUE,
                        !.subscriptionError =
                            CASE outcome = "rejected" -> FailedToFetch
                              [] outcome = "notOk" -> SubscriptionCreationFailed
                              [] OTHER -> SubscriptionErrorBody]

\* the create-subscription fetch settles: the rest of
\* createSubscriptionAfterPayment, then handlePaymentSuccess up to the two
\* emailjs.send calls.  The reads of the response body are awaits between
\* which the handler looks at nothing a user event changes.
\* subscriptionTrackerThrows and paymentTrackerThrows say whether
\* trackSubscriptionCreated and trackPaymentSuccess throw when called.
SubscriptionSettled(k, outcome, subscriptionTrackerThrows, paymentTrackerThrows) ==
    LET sub == submissions[k]
        failure == outcome # "created"
                   \/ (window.AnalyticsTracker /\ subscriptionTrackerThrows)
        tracked == window.AnalyticsTracker /\ window.currentOrderData.t = "obj"
        attempt == IF outcome = "created" THEN "created" ELSE "failed"
    IN
    /\ sub.pc = "subscribing"
    /\ window' = afterSubscription(sub.request, outcome, subscriptionTrackerThrows)
    /\ IF tracked /\ paymentTrackerThrows
       THEN \* the throw leaves handlePaymentSuccess for the catch of
            \* handlePaymentSubmission
            /\ modal' = restoreButton(showPaymentError(modal, UnexpectedPaymentError),
                                      sub.button)
            /\ submissions' = [submissions EXCEPT ![k] =
                  [@ EXCEPT !.pc = "done", !.subscriptionFailed = failure,
                            !.outcome = attempt, !.paymentErrors = @ + 1]]
       ELSE IF window.currentOrderData.t # "obj"
       THEN \* sendCustomerReceipt and sendBusinessNotification return at once
            /\ modal' = showPaymentSuccess(modal)
            /\ submissions' = [detached(submissions) EXCEPT ![k] =
                  [@ EXCEPT !.pc = "done", !.subscriptionFailed = failure,
                            !.outcome = attempt, !.successes = @ + 1,
                            !.reported = subscriptionStatus(window')]]
       ELSE /\ submissions' = [submissions EXCEPT ![k] =
                  [@ EXCEPT !.pc = "emailing", !.subscriptionFailed = failure,
                            !.outcome = attempt,
                            !.mailed = subscriptionStatus(window')]]
            /\ UNCHANGED modal
    /\ UNCHANGED <<form, intentVars, subVars, orderVars, mail>>

\* the create-subscription fetch settles with an outcome the function of this
\* repository has for the request
SubscriptionResponded(k, outcome, subscriptionTrackerThrows, paymentTrackerThrows) ==
    /\ outcome \in fetchOutcomes(submissions[k].request)
    /\ SubscriptionSettled(k, outcome, subscriptionTrackerThrows, paymentTrackerThrows)

\* what becomes of the emailjs.send call of sendCustomerReceipt and of
\* sendBusinessNotification: the email is sent, the promise rejects, the call
\* throws, or emailjs is not on the page
EmailOutcomes == {"sent", "rejected", "threw", "absent"}

\* handlePaymentSuccess from its two emails on, as if a failed email left
\* the function through a throw
afterEmails_EmailFailureThrows(customerEmail, businessEmail) ==
    IF {customerEmail, businessEmail} = {"sent"} THEN "showPaymentSuccess"
    ELSE "throw"

\* handlePaymentSuccess from its two emails on.  Each sender calls
\* emailjs.send inside a try whose catch logs and returns, so a rejection, a
\* throw and the ReferenceError of an absent emailjs all fulfil the sender's
\* promise; Promise.allSettled never rejects; the try block ends with
\* showPaymentSuccess and so does its catch.
afterEmails(customerEmail, businessEmail) == "showPaymentSuccess"

\* both email senders have settled: showPaymentSuccess, or a throw into the
\* catch of handlePaymentSubmission
EmailsSettled(k, customerEmail, businessEmail) ==
    LET sub == submissions[k]
        emailFailed == {customerEmail, businessEmail} # {"sent"}
    IN
    /\ sub.pc = "emailing"
    /\ IF afterEmails(customerEmail, businessEmail) = "showPaymentSuccess"
       THEN /\ modal' = showPaymentSuccess(modal)
            /\ submissions' = [detached(submissions) EXCEPT ![k] =
                  [@ EXCEPT !.pc = "done", !.successes = @ + 1,
                            !.emailFailed = emailFailed, !.mailed = "none",
                            !.reported = subscriptionStatus(window)]]
       ELSE /\ modal' = restoreButton(showPaymentError(modal, UnexpectedPaymentError),
                                      sub.button)
            /\ submissions' = [submissions EXCEPT ![k] =
                  [@ EXCEPT !.pc = "done", !.paymentErrors = @ + 1,
                            !.emailFailed = emailFailed, !.mailed = "none"]]
    /\ UNCHANGED <<window, form, intentVars, subVars, orderVars, mail>>

Open == \E toteNumber \in PageTotes, throws \in BOOLEAN : ShowPaymentModal(toteNumber, throws)

Loaded == \E ok \in BOOLEAN : PaymentFormLoaded(ok)

Close == ClosePaymentModal

Submit == \E k \in Submissions : HandlePaymentSubmission(k)

Confirmed ==
    \E k \in Submissions, result \in {"error", "paymentIntent", "unclear", "rejected"} :
        PaymentConfirmed(k, result)

Responded ==
    \E k \in Submissions, outcome \in {"rejected", "notOk", "errorBody", "created"},
       subscriptionTrackerThrows \in BOOLEAN, paymentTrackerThrows \in BOOLEAN :
        SubscriptionResponded(k, outcome, subscriptionTrackerThrows, paymentTrackerThrows)

\* the create-subscription fetch of a page whose request the function
\* accepts: every outcome, the 200 body included
Settled ==
    \E k \in Submissions, outcome \in {"rejected", "notOk", "errorBody", "created"},
       subscriptionTrackerThrows \in BOOLEAN, paymentTrackerThrows \in BOOLEAN :
        SubscriptionSettled(k, outcome, subscriptionTrackerThrows, paymentTrackerThrows)

Emailed ==
    \E k \in Submissions, customerEmail \in EmailOutcomes, businessEmail \in EmailOutcomes :
        EmailsSettled(k, customerEmail, businessEmail)

NextClient == AnalyticsLoaded \/ Open \/ Loaded \/ Close \/ Submit \/ Confirmed \/ Responded \/ Emailed

NextSession == AnalyticsLoaded \/ Open \/ Loaded \/ Close \/ Submit \/ Confirmed \/ Settled \/ Emailed

\* ------------------------------------------------------------------------
\* Order form: the pricing calculator and the submission of the hero form
\* ------------------------------------------------------------------------

TRIP_FEE == 20

COST_PER_TOTE == 10

\* calculateSetupCost(numTotes), numTotes a number or NaN (a missing
\* argument is undefined, which !numTotes treats as it treats NaN)
invalidToteCount_NoMaximum(numTotes) ==
    numTotes.nan \/ numTotes.v = 0 \/ numTotes.v < 2

\* !numTotes || numTotes < 2 || numTotes > 10
invalidToteCount(numTotes) ==
    numTotes.nan \/ numTotes.v = 0 \/ numTotes.v < 2 \/ numTotes.v > 10

calculateSetupCost_NoTripFee(numTotes) ==
    IF invalidToteCount(numTotes) THEN 0 ELSE COST_PER_TOTE * numTotes.v

calculateSetupCost(numTotes) ==
    IF invalidToteCount(numTotes) THEN 0 ELSE TRIP_FEE + (COST_PER_TOTE * numTotes.v)

\* the decimal digits of a natural number, as String(n) writes them
RECURSIVE numberToString(_)
numberToString(n) ==
    IF n < 10 THEN <<CHOOSE c \in Digits : DigitValue(c) = n>>
    ELSE numberToString(n \div 10) \o numberToString(n % 10)

\* formatCostMessage(totalCost, numTotes)
formatCostMessage(totalCost, numTotes) ==
    [text |-> "Setup Cost", totalCost |-> totalCost, monthlyFee |-> numTotes * 10]

PlainMessage(text) == [text |-> text, totalCost |-> 0, monthlyFee |-> 0]

\* the cost display createCostDisplay inserts: hidden, without a data-cost
NewCostDisplay == [innerHTML |-> PlainMessage(""), display |-> "none", dataCost |-> Null]

\* parseInt(toteInput.value) || 0
numTotesOf(value) ==
    IF parseInt(Str(value)).nan THEN 0 ELSE parseInt(Str(value)).v

updatePricingDisplay_StaleCost(value, display) ==
    LET numTotes == numTotesOf(value)
        setupCost == calculateSetupCost(Number(numTotes))
    IN
    IF numTotes = 1 \/ (numTotes = 0 /\ value # <<>>)
    THEN [display EXCEPT !.innerHTML = PlainMessage("Minimum of two totes"),
                         !.display = "block"]
    ELSE IF numTotes > 10
    THEN [display EXCEPT !.innerHTML = PlainMessage("Maximum of ten totes"),
                         !.display = "block"]
    ELSE IF setupCost > 0
    THEN [innerHTML |-> formatCostMessage(setupCost, numTotes), display |-> "block",
          dataCost |-> Str(numberToString(setupCost))]
    ELSE [display EXCEPT !.display = "none"]

\* updatePricingDisplay(toteInput, costDisplay): the cost display after it
updatePricingDisplay(value, display) ==
    LET numTotes == numTotesOf(value)
        setupCost == calculateSetupCost(Number(numTotes))
    IN
    IF numTotes = 1 \/ (numTotes = 0 /\ value # <<>>)
    THEN [innerHTML |-> PlainMessage("Minimum of two totes"), display |-> "block",
          dataCost |-> Str(<<"0">>)]
    ELSE IF numTotes > 10
    THEN [innerHTML |-> PlainMessage("Maximum of ten totes"), display |-> "block",
          dataCost |-> Str(<<"0">>)]
    ELSE IF setupCost > 0
    THEN [innerHTML |-> formatCostMessage(setupCost, numTotes), display |-> "block",
          dataCost |-> Str(numberToString(setupCost))]
    ELSE [display EXCEPT !.display = "none", !.dataCost = Str(<<"0">>)]

\* getOrderCost(form): parseInt(costDisplay.getAttribute('data-cost')) || 0
getOrderCost(display) ==
    IF parseInt(display.dataCost).nan THEN 0 ELSE parseInt(display.dataCost).v

\* the values typed into the tote field
ToteValues ==
    { <<>>, <<"0">>, <<"1">>, <<"2">>, <<"5">>, <<"1", "0">>, <<"1", "1">>,
      <<"9", "9">>, <<"-", "3">>, <<"2", ".", "9">>, <<"5", "x">>, <<"a", "b", "c">>,
      <<" ", "7">> }

\* the other fields of the form
FormFields(name, email, phone, address) ==
    [name |-> name, email |-> email, phone |-> phone, address |-> address]

FieldInputs ==
    { FormFields(JaneDoe, JaneEmail, JanePhone, MainStreet),
      FormFields(<<>>, JaneEmail, JanePhone, MainStreet),
      FormFields(JaneDoe, <<>>, JanePhone, MainStreet),
      FormFields(JaneDoe, JaneEmail, <<>>, MainStreet),
      FormFields(JaneDoe, JaneEmail, JanePhone, <<>>),
      FormFields(JaneDoe, JaneEmail, JanePhone, <<"1", " ", "M", "a", "i", "n">>) }

NoCalculation == [called |-> FALSE, numTotes |-> NaN, cost |-> 0]

NoSubmission == [outcome |-> "none", value |-> <<>>, orderData |-> NoOrder, cost |-> 0]

InitOrderForm ==
    /\ toteInput = <<>>
    /\ costDisplay = NewCostDisplay
    /\ submission = NoSubmission
    /\ calculated = <<NoCalculation, NoCalculation>>

\* an input, change or keyup event of the tote field
ToteInputEvent(value) ==
    /\ toteInput' = value
    /\ costDisplay' = updatePricingDisplay(value, costDisplay)
    /\ UNCHANGED <<submission, calculated, intentVars, subVars, clientVars, mail>>

\* the checks of handleOrderSubmission and, after them, of
\* processOrderSubmission: is the order handed to showPaymentModal
orderBlocked(fields, value, display, trackerThrows) ==
    LET totalCost == getOrderCost(display)
        toteNumber == parseInt(Str(value))
    IN
    \/ totalCost <= 0
    \/ fields.name = <<>> \/ fields.email = <<>> \/ fields.phone = <<>>
    \/ fields.address = <<>> \/ Len(fields.address) < 10
    \/ value = <<>>
    \* AnalyticsTracker.trackFormSubmission throws
    \/ trackerThrows
    \/ toteNumber.nan \/ toteNumber.v = 0

\* the orderData processOrderSubmission builds; totalCost is kept in
\* thousandths of a dollar
submittedOrder(fields, value, display) ==
    Order(Str(fields.name), Str(fields.email), Str(fields.phone), Str(fields.address),
          Num(parseInt(Str(value)).v), Num(getOrderCost(display) * 1000))

\* showPaymentModal(orderData) up to the fetch of initializePaymentForm: the
\* modal and the form in flight after it
showPaymentModalStarts(trackerThrows) ==
    ~((window.AnalyticsTracker /\ trackerThrows) \/ modal.body # "form")

\* a submit event of the hero form: handleFormSubmission,
\* handleOrderSubmission, processOrderSubmission and showPaymentModal up to
\* the create-payment-intent fetch
HandleOrderSubmission(fields, formTrackerThrows, modalTrackerThrows) ==
    LET blocked == orderBlocked(fields, toteInput, costDisplay,
                                window.AnalyticsTracker /\ formTrackerThrows)
        orderData == submittedOrder(fields, toteInput, costDisplay)
    IN
    /\ form.pc = "idle"
    /\ IF blocked
       THEN /\ submission' = [outcome |-> "blocked", value |-> toteInput,
                              orderData |-> NoOrder, cost |-> getOrderCost(costDisplay)]
            /\ UNCHANGED <<modal, form>>
       ELSE /\ submission' = [outcome |-> "showPaymentModal", value |-> toteInput,
                              orderData |-> orderData, cost |-> getOrderCost(costDisplay)]
            /\ IF showPaymentModalStarts(modalTrackerThrows)
               THEN /\ modal' = [modal EXCEPT !.display = "flex"]
                    /\ form' = [pc |-> "loading", orderData |-> orderData]
               ELSE UNCHANGED <<modal, form>>
    /\ UNCHANGED <<toteInput, costDisplay, calculated, window, submissions,
                   intentVars, subVars, mail>>

\* the arguments calculateSetupCost is applied to: numbers around the range
\* and NaN, which also stands for a missing argument
MaxToteArgument == 12

ToteArguments == { Number(n) : n \in -1..MaxToteArgument } \cup {NaN}

\* calculateSetupCost is applied; the two last applications are kept
Calculate(numTotes) ==
    /\ calculated' = <<calculated[2],
                       [called |-> TRUE, numTotes |-> numTotes,
                        cost |-> calculateSetupCost(numTotes)]>>
    /\ UNCHANGED <<toteInput, costDisplay, submission, intentVars, subVars, clientVars, mail>>

TypeTotes == \E value \in ToteValues : ToteInputEvent(value)

SubmitOrder ==
    \E fields \in FieldInputs, formTrackerThrows \in BOOLEAN, modalTrackerThrows \in BOOLEAN :
        HandleOrderSubmission(fields, formTrackerThrows, modalTrackerThrows)

ApplyCalculator == \E numTotes \in ToteArguments : Calculate(numTotes)

NextOrderForm == TypeTotes \/ SubmitOrder \/ Loaded \/ AnalyticsLoaded

NextPricing == ApplyCalculator

\* ------------------------------------------------------------------------
\* Email functions: the order confirmation and the contact form handlers
\* ------------------------------------------------------------------------

NotProvided == <<"N", "o", "t", " ", "p", "r", "o", "v", "i", "d", "e", "d">>

\* .replace(/<[^>]*>?/gm, ''): from each '<' through the next '>', or to the
\* end of the string when no '>' follows
RECURSIVE stripTags(_)
stripTags(s) ==
    IF s = <<>> THEN <<>>
    ELSE IF Head(s) # "<" THEN <<Head(s)>> \o stripTags(Tail(s))
    ELSE IF \E i \in 2..Len(s) : s[i] = ">"
    THEN stripTags(SubSeq(s, (CHOOSE i \in 2..Len(s) :
                                 s[i] = ">" /\ \A j \in 2..(i - 1) : s[j] # ">") + 1, Len(s)))
    ELSE <<>>

\* escapeMap
escapeOf(c) ==
    CASE c = "<" -> <<"&", "l", "t", ";">>
      [] c = ">" -> <<"&", "g", "t", ";">>
      [] c = "&" -> <<"&", "a", "m", "p", ";">>
      [] c = "\"" -> <<"&", "q", "u", "o", "t", ";">>
      [] c = "'" -> <<"&", "#", "x", "2", "7", ";">>
      [] OTHER -> <<c>>

\* .replace(/[<>&"']/g, char => escapeMap[char])
RECURSIVE escapeSpecial(_)
escapeSpecial(s) ==
    IF s = <<>> THEN <<>> ELSE escapeOf(Head(s)) \o escapeSpecial(Tail(s))

\* sanitize(str) of both email handlers, for a string or a missing field
sanitize(str) ==
    IF falsy(str) THEN NotProvided
    ELSE trim(escapeSpecial(stripTags(str.s)))

\* /^[^\s@]+@[^\s@]+\.[^\s@]+$/
looseEmailRegex(s) ==
    /\ \A i \in 1..Len(s) : s[i] \notin WhiteSpace
    /\ Cardinality({i \in 1..Len(s) : s[i] = "@"}) = 1
    /\ \E a \in 2..Len(s) : \E d \in (a + 2)..(Len(s) - 1) : s[a] = "@" /\ s[d] = "."

\* /^\d{10,}$/
digitsOnlyPhone(s) == Len(s) >= 10 /\ allIn(s, Digits)

\* the body of an order confirmation request
OrderMail(name, email, order_id, subscription_id, address, phone, payment_date) ==
    [customer_name |-> name, to_email |-> email, order_id |-> order_id,
     subscription_id |-> subscription_id, amount_paid |-> Num(70000),
     tote_quantity |-> Num(5), customer_address |-> address,
     customer_phone |-> phone, payment_date |-> payment_date]

NoMailData ==
    [customer_name |-> <<>>, to_email |-> <<>>, order_id |-> <<>>, subscription_id |-> <<>>,
     amount_paid |-> NaN, tote_quantity |-> 0, customer_address |-> <<>>,
     customer_phone |-> <<>>, payment_date |-> <<>>]

\* a date of the function's clock, which the handler formats itself
Today == <<"T", "o", "d", "a", "y">>

\* parseFloat(amount).toFixed(2), in cents
toFixed2(amount) ==
    IF parseFloat(amount).nan THEN NaN ELSE Number((parseFloat(amount).v + 5) \div 10)

\* sanitizedData of the order confirmation handler
orderSanitizedData(data) ==
    [customer_name |-> sanitize(data.customer_name),
     to_email |-> sanitize(data.to_email),
     order_id |-> sanitize(data.order_id),
     subscription_id |-> sanitize(data.subscription_id),
     amount_paid |-> toFixed2(data.amount_paid),
     tote_quantity |-> IF parseInt(data.tote_quantity).nan THEN 0
                       ELSE parseInt(data.tote_quantity).v,
     customer_address |-> sanitize(data.customer_address),
     customer_phone |-> sanitize(data.customer_phone),
     payment_date |-> IF falsy(data.payment_date) THEN Today ELSE data.payment_date.s]

\* the status the order confirmation handler answers with before it builds
\* a message, 0 when it goes on
orderMailRejected(data) ==
    \/ \E f \in {"customer_name", "to_email", "order_id", "amount_paid", "tote_quantity",
                 "customer_address", "customer_phone"} : falsy(data[f])
    \/ ~looseEmailRegex(data.to_email.s)

NoMail == [handler |-> "none", data |-> OrderMail(Null, Null, Null, Null, Null, Null, Null),
           statusCode |-> 0, sent |-> 0, message |-> NoMailData]

InitMail == mail = NoMail

\* one invocation of the order confirmation function with a POST body that
\* parses; sesFails is the ses.sendEmail call that throws, 0 for none
OrderConfirmation(data, sesFails) ==
    /\ mail' =
         IF orderMailRejected(data)
         THEN [handler |-> "order", data |-> data, statusCode |-> 400, sent |-> 0,
               message |-> NoMailData]
         ELSE [handler |-> "order", data |-> data,
               statusCode |-> IF sesFails = 0 THEN 200 ELSE 500,
               sent |-> IF sesFails = 0 THEN 2 ELSE sesFails - 1,
               message |-> orderSanitizedData(data)]
    /\ UNCHANGED <<intentVars, subVars, clientVars, orderVars>>

\* the body of a contact request
ContactMail(name, email, phone, address, message) ==
    [name |-> name, email |-> email, phone |-> phone, address |-> address,
     tote_number |-> Null, message |-> message, order_cost |-> Null]

\* does the contact handler answer 400 before it builds a message
contactRejected(data) ==
    \/ \E f \in {"name", "email", "phone"} : falsy(data[f]) \/ trim(data[f].s) = <<>>
    \/ ~looseEmailRegex(data.email.s)
    \/ ~digitsOnlyPhone(data.phone.s)

\* sanitizedData of the contact handler
contactSanitizedData(data) ==
    [name |-> sanitize(data.name), email |-> sanitize(data.email),
     phone |-> sanitize(data.phone), address |-> sanitize(data.address),
     tote_number |-> sanitize(data.tote_number), message |-> sanitize(data.message),
     order_cost |-> sanitize(data.order_cost), timestamp |-> Today]

\* one invocation of the contact function with a POST body that parses
ContactEmail(data, sesFails) ==
    /\ mail' =
         IF contactRejected(data)
         THEN [handler |-> "contact", data |-> data, statusCode |-> 400, sent |-> 0,
               message |-> NoMailData]
         ELSE [handler |-> "contact", data |-> data,
               statusCode |-> IF sesFails THEN 500 ELSE 200,
               sent |-> IF sesFails THEN 0 ELSE 1,
               message |-> contactSanitizedData(data)]
    /\ UNCHANGED <<intentVars, subVars, clientVars, orderVars>>

\* field values: plain text, markup, special characters, padding, nothing
MailNames ==
    { Str(JaneDoe), Str(<<"<", "b", ">", "J", "&", "o">>), Null }

MailEmails == { Str(JaneEmail), Str(<<"<", "i", ">", "@", "x", ".", "y">>) }

MailDates ==
    { Null, Str(<<"M", "a", "y", " ", "1">>),
      Str(<<"<", "i", "m", "g", " ", "s", "r", "c", "=", "x", ">">>),
      Str(<<"\"", ">", "<", "a">>) }

MailAddresses == { Str(MainStreet), Str(<<" ", "1", " ", "'", "A", "'", " ">>) }

MailIds == { Str(<<"p", "i", "_", "1">>), Str(<<"<", "s", ">", "7">>) }

MailRequests ==
    { OrderMail(n, e, o, s, a, Str(JanePhone), d) :
        n \in MailNames, e \in MailEmails, o \in MailIds, s \in {Str(<<"1">>), Null},
        a \in MailAddresses, d \in MailDates }

SendOrderConfirmation ==
    \E data \in MailRequests, sesFails \in 0..2 : OrderConfirmation(data, sesFails)

ContactRequests ==
    { ContactMail(n, e, Str(JanePhone), a, m) :
        n \in MailNames, e \in MailEmails, a \in MailAddresses \cup {Null},
        m \in MailDates }

SendContactEmail ==
    \E data \in ContactRequests, sesFails \in BOOLEAN : ContactEmail(data, sesFails)

NextMail == SendOrderConfirmation \/ SendContactEmail

\* ------------------------------------------------------------------------
\* Specifications
\* ------------------------------------------------------------------------

\* time passes in the function's process
AdvanceSteps == {30000}

\* the model stops the clock here
MaxNow == 60000

Tick(step) ==
    /\ now + step <= MaxNow
    /\ now' = now + step
    /\ UNCHANGED <<requestCounts, accepted, limitedIPs, event, response, subVars, clientVars,
                   orderVars, mail>>

Invoke == \E e \in IntentEvents : CreatePaymentIntent(e)

InvokeLimited == \E e \in LimiterEvents : CreatePaymentIntent(e)

Advance == \E step \in AdvanceSteps : Tick(step)

Init == InitIntent /\ InitSubscription /\ InitClient /\ InitOrderForm /\ InitMail

NextIntent == Invoke

NextLimiter == InvokeLimited \/ Advance

SpecIntent == Init /\ [][NextIntent]_vars

SpecLimiter == Init /\ [][NextLimiter]_vars

SpecSubscription == Init /\ [][NextSubscription]_vars

SpecClient == Init /\ [][NextClient]_vars

SpecSession == Init /\ [][NextSession]_vars

SpecOrderForm == Init /\ [][NextOrderForm]_vars

SpecPricing == Init /\ [][NextPricing]_vars

SpecMail == Init /\ [][NextMail]_vars

\* ------------------------------------------------------------------------
\* create-payment-intent: properties
\* ------------------------------------------------------------------------

\* the last invocation got past the limiter and the method check
validatedRequest ==
    /\ event.httpMethod = "POST"
    /\ response.statusCode \notin {0, 429}

eventTotes == parseInt(event.body.orderData.toteNumber)

eventCost == parseFloat(event.body.orderData.totalCost)

\* C1: stripe.paymentIntents.create is called only when the parsed toteNumber
\* is in [2,10] and the amount of the request is the number
\* (20 + 10*toteNumber)*100; for every other amount, totalCost and toteNumber
\* the gateway is not called.
C1_GatewayOnlyForExpectedAmount ==
    response.created.called =>
        /\ ~eventTotes.nan
        /\ eventTotes.v \in 2..10
        /\ event.body.amount = Num((20 + 10 * eventTotes.v) * 100)
        /\ response.created.amount = (20 + 10 * eventTotes.v) * 100

\* a payment intent was created for an order whose tote count came as a string
C1_Witness ==
    /\ response.statusCode = 200
    /\ response.created.called
    /\ event.body.orderData.toteNumber.t = "str"

\* the declared totalCost is a number more than $0.01 away from 20 + 10*toteCount
declaredCostDiffers ==
    /\ event.body.t = "json"
    /\ event.body.orderData.t = "obj"
    /\ ~eventTotes.nan
    /\ ~eventCost.nan
    /\ Abs(eventCost.v - 1000 * (20 + 10 * eventTotes.v)) > 10

\* the order passes validateOrderData once its totalCost is put right
validButForCost ==
    /\ ~eventTotes.nan
    /\ validateOrderData([event.body.orderData EXCEPT
                              !.totalCost = Num(1000 * (20 + 10 * eventTotes.v))]).ok

\* C2: an order whose declared totalCost differs from 20 + 10*toteCount by
\* more than $0.01 never reaches the gateway and is never answered with 200;
\* when the request gets to validation (a POST the limiter let pass) the answer
\* is an error with code VALIDATION_ERROR, and when the cost is the only thing
\* wrong with the order it is the 400 "Invalid order amount calculated".
C2_CostMismatchRejected ==
    (event.httpMethod # "none" /\ declaredCostDiffers) =>
        /\ ~response.created.called
        /\ response.statusCode # 200
        /\ validatedRequest => response.code = "VALIDATION_ERROR"
        /\ (validatedRequest /\ validButForCost /\ ~falsy(event.body.amount)) =>
              (response.statusCode = 400 /\ response.error = InvalidOrderAmount)

\* an order of 5 totes declared at $60 was rejected for its cost
C2_Witness ==
    /\ declaredCostDiffers
    /\ validatedRequest
    /\ eventTotes.v = 5
    /\ eventCost.v = 60000
    /\ response.error = InvalidOrderAmount

\* the order of the last invocation passes validateOrderData
orderValid ==
    /\ event.body.t = "json"
    /\ event.body.orderData.t = "obj"
    /\ validateOrderData(event.body.orderData).ok

\* C3 (as claimed): for an order that is otherwise valid, every amount that is
\* not expectedCost*100 is answered with HTTP 400, also inside [4000, 12000].
C3_AmountMismatchIs400 ==
    (validatedRequest /\ orderValid
       /\ event.body.amount # Num((20 + 10 * eventTotes.v) * 100)) =>
        response.statusCode = 400

\* the amount of the request is a number outside [4000, 12000] cents, or missing
amountOutOfBounds ==
    /\ event.body.t = "json"
    /\ \/ event.body.amount.t = "null"
       \/ /\ event.body.amount.t = "num"
          /\ (event.body.amount.n < 40 * 100 \/ event.body.amount.n > 120 * 100)

\* C4 (as claimed): a request whose amount is outside [40, 120] dollars, 0,
\* negative or missing, is answered with HTTP 400 and makes no gateway call.
C4_OutOfBoundsIs400 ==
    (validatedRequest /\ amountOutOfBounds) =>
        (response.statusCode = 400 /\ ~response.created.called)

\* the calls of clientIP the limiter let pass that are younger than the window
youngAccepted(clientIP) ==
    { j \in DOMAIN accepted[clientIP] : now - accepted[clientIP][j] < 60 * 1000 }

\* C5: per client IP at most 5 calls are accepted in any rolling 60 s window,
\* and a call made while 5 accepted calls of its IP are younger than 60 s is
\* answered 429 RATE_LIMIT_EXCEEDED without a gateway call.
C5_AtMostFivePerWindow ==
    /\ [](\A ip \in ClientIPs : \A i \in DOMAIN accepted[ip] :
            Cardinality({ j \in 1..i : accepted[ip][i] - accepted[ip][j] < 60 * 1000 }) <= 5)
    /\ [][ (now' = now /\ Cardinality(youngAccepted(clientIPOf(event'))) >= 5) =>
              /\ response'.statusCode = 429
              /\ response'.code = "RATE_LIMIT_EXCEEDED"
              /\ ~response'.created.called
              /\ accepted' = accepted ]_vars

\* a sixth call inside the window was turned away
C5_Witness ==
    /\ response.statusCode = 429
    /\ Cardinality(youngAccepted(clientIPOf(event))) = 5

\* C6: a call of an IP with fewer than 5 accepted calls younger than 60 s is
\* let pass by the limiter, whatever was rejected before; a rejected call is
\* not recorded.
C6_RejectedCallsNotRecorded ==
    /\ [][ (now' = now /\ Cardinality(youngAccepted(clientIPOf(event'))) < 5) =>
              /\ response'.statusCode # 429
              /\ accepted' = [accepted EXCEPT ![clientIPOf(event')] = Append(@, now)] ]_vars
    /\ [][ (now' = now /\ response'.statusCode = 429) =>
              requestCounts' = requestCounts ]_vars

\* an IP that was turned away is served again after the window
C6_Witness ==
    /\ clientIPOf(event) \in limitedIPs
    /\ response.statusCode = 200
    /\ Len(accepted[clientIPOf(event)]) > 5

\* ------------------------------------------------------------------------
\* create-subscription: properties
\* ------------------------------------------------------------------------

GatewayMutations == {"customers.update", "prices.create", "subscriptions.create"}

\* the invocation has issued a call that changes the gateway
mutated(inv) == \E i \in DOMAIN inv.calls : inv.calls[i] \in GatewayMutations

\* stripe.paymentIntents.retrieve has returned to the invocation
retrieved(inv) == inv.paymentIntent # NoPaymentIntent

\* C7: an invocation issues customers.update, prices.create or
\* subscriptions.create only after paymentIntents.retrieve, its first gateway
\* call, returned a payment intent of status 'succeeded' with a payment
\* method; an invocation whose payment intent came back in another status
\* issues none of them and answers with an error, and every subscription,
\* price-creating request and customer default in the gateway belongs to a
\* succeeded payment intent.
C7_NoMutationBeforePaymentSucceeded ==
    /\ \A k \in Invocations :
         LET inv == invocations[k] IN
         /\ mutated(inv) =>
               /\ inv.calls[1] = "paymentIntents.retrieve"
               /\ inv.paymentIntent.status = "succeeded"
               /\ inv.paymentIntent.payment_method # ""
         /\ retrieved(inv) /\ inv.paymentIntent.status # "succeeded" =>
               /\ ~mutated(inv)
               /\ inv.pc = "done"
               /\ inv.response.statusCode \notin 200..299
               /\ inv.response.error = NotSucceededYet
    /\ \A s \in DOMAIN subscriptions :
         /\ subscriptions[s].original_payment_intent \in DOMAIN PaymentIntentTable
         /\ PaymentIntentTable[subscriptions[s].original_payment_intent].status
               = "succeeded"
    /\ \A c \in KnownCustomers :
         customers[c].default_payment_method # "" =>
            \E k \in Invocations : invocations[k].paymentIntent.status = "succeeded"

\* a request whose payment intent is 'requires_payment_method' was rejected
\* and another one, whose payment intent had succeeded, created a subscription
C7_Witness ==
    /\ \E k \in Invocations :
         /\ invocations[k].paymentIntent.status = "requires_payment_method"
         /\ invocations[k].response.statusCode = 500
    /\ \E k \in Invocations :
         /\ invocations[k].response.statusCode = 200
         /\ subscriptions # <<>>

\* C8: the gateway never holds two subscriptions created for the same
\* payment intent, however many create-subscription requests carry its id.
C8_OneSubscriptionPerPaymentIntent ==
    \A i, j \in DOMAIN subscriptions :
        subscriptions[i].original_payment_intent = subscriptions[j].original_payment_intent
            => i = j

\* ------------------------------------------------------------------------
\* Payment page: properties
\* ------------------------------------------------------------------------

\* C9: a handlePaymentSubmission call whose confirmPayment resolved with a
\* paymentIntent has, when it ends, issued exactly one create-subscription
\* request, whatever the user did while the confirmation was pending.
C9_OneSubscriptionRequestPerConfirmedPayment ==
    \A k \in Submissions :
        submissions[k].confirmed /\ submissions[k].pc = "done"
            => submissions[k].requests = 1

\* C10: a handlePaymentSubmission call whose payment was confirmed and whose
\* subscription creation failed ends with window.subscriptionCreationFailed
\* set, without a showPaymentError call and with a showPaymentSuccess call.
C10_SubscriptionFailureKeepsPaymentSuccess ==
    \A k \in Submissions :
        LET sub == submissions[k] IN
        sub.confirmed /\ sub.subscriptionFailed /\ sub.pc = "done"
            => /\ window.subscriptionCreationFailed
               /\ sub.paymentErrors = 0
               /\ sub.successes >= 1

C12_AnalyticsThrowKeepsPaymentSuccess ==
    \A k \in Submissions :
        submissions[k].confirmed /\ submissions[k].pc = "done"
            => /\ submissions[k].successes = 1
               /\ submissions[k].paymentErrors = 0

\* C13: the create-subscription request the page sends after a confirmed
\* payment passes the validation of the function (payment_intent_id,
\* customer_id and monthly_amount present, monthly_amount in range), so that
\* the flow can end with window.currentSubscriptionData set.
C13_SubscriptionRequestAccepted ==
    \A k \in Submissions :
        submissions[k].requests > 0
            => subscriptionRequestError(submissions[k].request) = NoError

\* ------------------------------------------------------------------------
\* Pricing properties
\* ------------------------------------------------------------------------

inRange(numTotes) == ~numTotes.nan /\ numTotes.v >= 2 /\ numTotes.v <= 10

\* C14: for every tote count from 2 to 10 calculateSetupCost returns
\* 20 + 10 * toteCount, and of two counts in the range the larger one costs
\* strictly more.
C14_SetupCostInRange ==
    /\ \A i \in 1..2 :
           calculated[i].called /\ inRange(calculated[i].numTotes)
               => calculated[i].cost = 20 + 10 * calculated[i].numTotes.v
    /\ (/\ calculated[1].called /\ inRange(calculated[1].numTotes)
        /\ calculated[2].called /\ inRange(calculated[2].numTotes)
        /\ calculated[1].numTotes.v < calculated[2].numTotes.v)
           => calculated[1].cost < calculated[2].cost

C14_Witness ==
    /\ calculated[1] = [called |-> TRUE, numTotes |-> Number(2), cost |-> 40]
    /\ calculated[2] = [called |-> TRUE, numTotes |-> Number(10), cost |-> 120]

toteCountInRange(value) == numTotesOf(value) >= 2 /\ numTotesOf(value) <= 10

\* C16: whatever was typed into the tote field, a submit of the order form
\* with a tote count outside 2..10 is blocked before the payment modal and
\* its create-payment-intent fetch; showPaymentModal is reached only with a
\* stored data-cost above 0, and then orderData.totalCost is
\* 20 + 10 * orderData.toteNumber dollars.
C16_OrderFormBlocksInvalidToteCount ==
    /\ submission.outcome # "none" /\ ~toteCountInRange(submission.value)
           => submission.outcome = "blocked"
    /\ submission.outcome = "showPaymentModal"
           => /\ submission.cost > 0
              /\ submission.orderData.totalCost.n
                     = 1000 * (20 + 10 * submission.orderData.toteNumber.n)
    /\ form.pc = "loading"
           => /\ form.orderData.toteNumber.n \in 2..10
              /\ form.orderData.totalCost.n = 1000 * (20 + 10 * form.orderData.toteNumber.n)

\* an order of ten totes reached the payment modal at 120 dollars, and the
\* next submit, with eleven totes typed, was blocked
C16_Witness ==
    /\ window.currentOrderData.t = "obj"
    /\ window.currentOrderData.toteNumber = Num(10)
    /\ window.currentOrderData.totalCost = Num(120000)
    /\ modal.display = "flex"
    /\ submission.outcome = "blocked"
    /\ submission.value = <<"1", "1">>
    /\ submission.cost = 0
    /\ costDisplay.innerHTML.text = "Maximum of ten totes"

\* ------------------------------------------------------------------------
\* create-subscription: request properties
\* ------------------------------------------------------------------------

\* one of the four inputs is missing from the body
missingInput(body) ==
    \/ falsy(body.payment_intent_id) \/ falsy(body.customer_id)
    \/ falsy(body.monthly_amount) \/ falsy(body.tote_quantity)

\* monthly_amount is a number outside 20..100
outsideMonthlyRange(body) ==
    /\ body.monthly_amount.t = "num"
    /\ (body.monthly_amount.n < 20 \/ body.monthly_amount.n > 100)

\* C17: a POST whose body lacks payment_intent_id, customer_id,
\* monthly_amount or tote_quantity issues no gateway call and is answered
\* with the missing-data error; a POST with all four whose monthly_amount is
\* outside 20..100 issues no gateway call and is answered with the
\* invalid-amount error.
C17_IncompleteRequestRejected ==
    \A k \in Invocations :
        LET inv == invocations[k] IN
        inv.request.httpMethod = "POST" /\ inv.request.body.t = "json" =>
            /\ missingInput(inv.request.body) =>
                  /\ inv.calls = <<>>
                  /\ inv.pc = "done"
                  /\ inv.response.error = MissingSubscriptionData
            /\ ~missingInput(inv.request.body) /\ outsideMonthlyRange(inv.request.body) =>
                  /\ inv.calls = <<>>
                  /\ inv.pc = "done"
                  /\ inv.response.error = InvalidMonthlyAmount

\* C18: every subscription of the gateway that was requested with a tote
\* count bills, per month, 10 dollars for each tote of its request: the unit
\* amount of its price is 100 * 10 * tote_quantity cents.
C18_MonthlyAmountMatchesToteQuantity ==
    \A s \in DOMAIN subscriptions :
        subscriptions[s].tote_quantity.t = "num" =>
            prices[subscriptions[s].price] = 100 * 10 * subscriptions[s].tote_quantity.n

\* ------------------------------------------------------------------------
\* Endpoint properties: methods and the catch block
\* ------------------------------------------------------------------------

\* C19: create-payment-intent answers an OPTIONS request with 200, and a
\* request of any other method than POST is not served: it gets no 200 and
\* reaches no gateway call.
C19_OptionsAnswered200 ==
    /\ event.httpMethod = "OPTIONS" => response.statusCode = 200
    /\ event.httpMethod \notin {"none", "POST", "OPTIONS"}
           => response.statusCode # 200 /\ ~response.created.called

\* stripe.paymentIntents.create was called and threw
gatewayThrew == response.created.called /\ response.statusCode # 200

\* JSON.parse of the body threw
parseThrew ==
    event.httpMethod = "POST" /\ event.body.t = "badjson" /\ response.statusCode # 429

\* C20: when stripe.paymentIntents.create or JSON.parse throws,
\* create-payment-intent answers 500 and the error of the body is not the
\* message of the exception; a 4xx answer comes from a validation, method or
\* limiter failure only, never from a gateway call that threw.
C20_UnexpectedExceptionIsGeneric500 ==
    /\ gatewayThrew => response.statusCode = 500 /\ response.error \notin GatewayErrors
    /\ parseThrew => response.statusCode = 500
    /\ response.statusCode \in 400..499 => ~gatewayThrew
\* ------------------------------------------------------------------------
\* Payment page: failed payments
\* ------------------------------------------------------------------------

\* C21: a submission whose stripe.confirmPayment resolved with an error or
\* rejected has issued no create-subscription request, has called
\* showPaymentError once and has not called showPaymentSuccess.
C21_FailedPaymentCreatesNoSubscription ==
    \A k \in Submissions :
        submissions[k].result \in {"error", "rejected"} =>
            /\ submissions[k].pc = "done"
            /\ ~submissions[k].confirmed
            /\ submissions[k].requests = 0
            /\ submissions[k].request = BadSubscriptionJson
            /\ submissions[k].failures = 1
            /\ submissions[k].successes = 0

\* a declined payment is on display in the open modal, and a later
\* submission's confirmPayment has rejected
C21_Witness ==
    /\ submissions[1].result = "error"
    /\ submissions[2].result = "rejected"
    /\ modal.display = "flex"
    /\ modal.errors = UnexpectedPaymentError
    /\ \A k \in {1, 2} : submissions[k].requests = 0 /\ submissions[k].successes = 0

\* ------------------------------------------------------------------------
\* Email functions: properties
\* ------------------------------------------------------------------------

OrderMailStrings ==
    {"customer_name", "to_email", "order_id", "subscription_id", "customer_address",
     "customer_phone", "payment_date"}

ContactMailStrings ==
    {"name", "email", "phone", "address", "tote_number", "message", "order_cost"}

\* C22: every string field of a request that an email function has placed
\* into a message is there as sanitize returns it.
C22_MessageFieldsSanitized ==
    /\ mail.handler = "order" /\ mail.statusCode # 400 =>
           \A f \in OrderMailStrings :
               ~falsy(mail.data[f]) => mail.message[f] = sanitize(mail.data[f])
    /\ mail.handler = "contact" /\ mail.statusCode # 400 =>
           \A f \in ContactMailStrings :
               ~falsy(mail.data[f]) => mail.message[f] = sanitize(mail.data[f])

\* the fields among name, email, phone and address that the order leaves out
missingRequired(orderData) ==
    { f \in {"name", "email", "phone", "address"} : falsy(orderData[f]) }

\* the message validateOrderData has for a field that is left out
requiredMessage(f) ==
    IF f = "name" THEN NameRequired
    ELSE IF f = "email" THEN EmailRequired
    ELSE IF f = "phone" THEN PhoneRequired
    ELSE AddressRequired

\* the errors the claimed sequence allows for an order whose given fields are
\* strings: a missing field first, then the email, the phone, the address, the
\* tote count and the cost
claimedErrors(orderData) ==
    LET toteNumber == parseInt(orderData.toteNumber)
        providedCost == parseFloat(orderData.totalCost)
    IN
    IF missingRequired(orderData) # {}
    THEN { requiredMessage(f) : f \in missingRequired(orderData) }
    ELSE IF ~emailRegex(orderData.email.s) THEN {EmailRequired}
    ELSE IF ~phoneRegex(orderData.phone.s) \/ Len(orderData.phone.s) < 10
    THEN {PhoneRequired}
    ELSE IF Len(trim(orderData.address.s)) < 10 THEN {AddressRequired}
    ELSE IF toteNumber.nan \/ toteNumber.v < MinTotes \/ toteNumber.v > MaxTotes
    THEN {ToteQuantityRange}
    ELSE IF providedCost.nan
            \/ costDiffExceedsTolerance(providedCost.v, expectedCost(toteNumber.v))
    THEN {InvalidOrderAmount}
    ELSE {NoError}

\* the last invocation reached validateOrderData with an order whose given
\* contact fields are strings, the name at least two characters once trimmed
sequencedOrder ==
    /\ validatedRequest
    /\ event.body.t = "json"
    /\ ~falsy(event.body.amount)
    /\ event.body.orderData.t = "obj"
    /\ \A f \in {"name", "email", "phone", "address"} :
           event.body.orderData[f].t \in {"str", "null"}
    /\ ~falsy(event.body.orderData.name) =>
           Len(trim(event.body.orderData.name.s)) >= 2

\* C23 (as claimed): order validation reports the first failing check of the
\* sequence missing name/email/phone/address, invalid email, invalid phone,
\* address shorter than 10, tote count outside [2,10], cost mismatch: an order
\* failing several checks is answered with the error earliest in that sequence.
C23_FirstFailingCheckInClaimedSequence ==
    (sequencedOrder /\ ~validateOrderData(event.body.orderData).ok) =>
        response.error \in claimedErrors(event.body.orderData)

\* C24 (as claimed): over every interleaving of create-subscription
\* invocations, at most one monthly price is created per unit amount: no two
\* prices of the gateway have the same amount.
C24_NoDuplicatePrices ==
    \A p, q \in DOMAIN prices : prices[p] = prices[q] => p = q

\* C25: the timestamp list stored for each IP never holds more than 5 entries,
\* and right after an invocation (a step that leaves the clock alone) every
\* entry stored for its IP is less than 60 s older than the call.
C25_StoredTimestampsBoundedAndRecent ==
    /\ [](\A ip \in ClientIPs : Len(requestCounts[ip]) <= 5)
    /\ [][now' = now =>
            \A j \in DOMAIN requestCounts'[clientIPOf(event')] :
                now' - requestCounts'[clientIPOf(event')][j] < 60 * 1000]_vars

\* an IP that filled its window at time 0 and was turned away has, 60 s later,
\* a full list again that holds only timestamps of that moment
C25_Witness ==
    /\ now = 60000
    /\ clientIPOf(event) = "203.0.113.7"
    /\ "203.0.113.7" \in limitedIPs
    /\ requestCounts["203.0.113.7"] = [j \in 1..5 |-> 60000]
    /\ Len(accepted["203.0.113.7"]) = 10

\* C26: the limiter is decided before the method check and before the body is
\* looked at.  In every invocation, whatever its method and its body: when the
\* IP has five timestamps in the window the answer is 429 and nothing is
\* stored, and otherwise the answer is not 429 and the call takes one slot.
C26_LimiterDecidedFirst ==
    [][now' = now =>
         LET clientIP == clientIPOf(event') IN
         IF Len(recentRequests(clientIP)) >= 5
         THEN /\ response'.statusCode = 429
              /\ requestCounts' = requestCounts
         ELSE /\ response'.statusCode # 429
              /\ requestCounts' =
                   [requestCounts EXCEPT ![clientIP] = Append(recentRequests(clientIP), now)]
    ]_vars

\* a GET that came sixth in the window was answered 429, not 405
C26_Witness ==
    /\ event.httpMethod = "GET"
    /\ response.statusCode = 429
    /\ requestCounts[clientIPOf(event)] = [j \in 1..5 |-> 0]
    /\ now = 0

C28_ErrorResponseMeansNoSubscription ==
    \A k \in Invocations :
        LET inv == invocations[k] IN
        (inv.pc = "done" /\ inv.response.statusCode # 200) => inv.subscription = 0

\* C29 (as claimed): whenever the payment modal is closed,
\* window.currentElements, window.currentClientSecret and
\* window.currentOrderData are all null, also when an initializePaymentForm
\* whose fetch started before the close completes after it.
C29_ClosedModalHoldsNoOrder ==
    modal.display = "none" =>
        /\ window.currentElements = Null
        /\ window.currentClientSecret = Null
        /\ window.currentOrderData = NoOrder

\* C30: stripe.confirmPayment is never pending twice for one client secret.
\* No two submissions wait for confirmPayment with the same client secret, and
\* from the start of handlePaymentSubmission to its finally block the button
\* the handler disabled stays disabled as long as it is in the document,
\* whatever was clicked, closed or reopened in between.
C30_NoConcurrentConfirmationOfOneIntent ==
    \A k \in Submissions :
        /\ submissions[k].pc = "confirming" =>
              /\ submissions[k].secret # Null
              /\ \A j \in Submissions \ {k} :
                     submissions[j].pc = "confirming" =>
                         submissions[j].secret # submissions[k].secret
        /\ (submissions[k].pc \in {"confirming", "subscribing", "emailing"}
               /\ submissions[k].button) =>
              (modal.body = "form" /\ modal.submitDisabled)

\* two confirmations are pending at once, for two payment intents: the modal
\* was closed and reopened between the two clicks
C30_Witness ==
    /\ submissions[1].pc = "confirming"
    /\ submissions[2].pc = "confirming"
    /\ submissions[1].secret = Id("1")
    /\ submissions[2].secret = Id("2")
    /\ ~submissions[1].button
    /\ modal.submitDisabled
====
